---- MODULE Spec2Model ----
(***************************************************************************)
(* Model of the JWT authentication middleware of go-fiber-boilerplate      *)
(* (src/internal/middleware/auth.go).  The file holds the middleware in    *)
(* three revisions, and the model runs the one chosen by `rev`.  Two keep  *)
(* a key cache and are the revisions of the specifications Spec, SpecAuth, *)
(* SpecWave and SpecLive:                                                  *)
(*   "r1"  lines 1-307:   Auth and getSupabasePublicKey written inline,    *)
(*                        with the stale-key grace period;                 *)
(*   "r2"  lines 310-631: the same middleware split into helper functions  *)
(*                        (getCachedKey, fetchAndCacheKey, ...).           *)
(* The third is the revision of SpecFirstKey:                              *)
(*   "r3"  lines 633-798: no cache; every RS256 token makes a fetch and    *)
(*                        is verified with the first key of the set.       *)
(* SpecKinds runs two callers with one refused request of every kind in    *)
(* all three revisions.  SpecApi is the /api group of                      *)
(* src/internal/app/app.go: Auth(), then RateLimit() of                    *)
(* src/internal/middleware/ratelimit.go (fiber's fixed-window limiter),    *)
(* then the handler.  SpecMax builds RateLimit() with every value of       *)
(* RATE_LIMIT_MAX.  SpecRotate is one caller of the cached revisions with  *)
(* the history of what the successful fetches have shown.                  *)
(*                                                                         *)
(* SpecHub and SpecHubLive are the WebSocket hub of src/unnamed/part_003   *)
(* (InitHub, Run, Broadcast, WebSocketHandler); SpecRealtime and           *)
(* SpecRealtimeLive are the Supabase Realtime subscriber of                *)
(* src/unnamed/part_007 feeding that hub.                                  *)
(*                                                                         *)
(* Time is an integer clock.  A request is a record holding the            *)
(* Authorization header as a sequence of chunks (words and single spaces)  *)
(* and the decoded content of the JWT it carries.  A key is a name; a      *)
(* signature made with key K verifies against K and against nothing else.  *)
(* sync.RWMutex is modelled by its contract: RLock waits while a writer    *)
(* holds the lock, Lock waits while a writer or any reader holds it (no    *)
(* writer preference, which only removes interleavings).                   *)
(***************************************************************************)
EXTENDS Integers, FiniteSets, Sequences, TLC

\* ---------------------------------------------------------------- bounds
NumCallers == 2
MaxTime == 3
MaxFetches == 3
\* The number of requests made on /api, the length of the RATE_LIMIT_MAX
\* strings that are tried, and the width of Go's int (scaled from 64 bits).
MaxApiRequests == 5
MaxEnvLen == 3
IntBits == 8
\* The calls of Broadcast, the losses of the realtime connection and the
\* change messages it delivers.
MaxBroadcasts == 4
MaxLosses == 2
MaxUpdates == 2

\* ------------------------------------------------------------- constants
\* cacheTTL (auth.go:24, 1 hour) and gracePeriod (auth.go:25, 5 minutes), each
\* scaled to clock ticks so that fresh, expired-within-grace and past-grace
\* instants all occur before MaxTime.
cacheTTL == 1
gracePeriod == 2

Revisions == {"r1", "r2"}
Procs == 1 .. NumCallers
NoProc == 0
Kids == {"a", "b"}
Keys == {"K1", "K2"}
NoKey == "nil"
NoTime == -1
NoUser == "<none>"
ClaimAbsent == "<absent>"
ClaimNonString == "<number>"

\* ------------------------------------------------------- remote key set
\* What GET <SUPABASE_URL>/.well-known/jwks.json can answer: a transport error,
\* a non-200 status, an undecodable body, or a key set.  keys[k] is the first
\* entry of the set whose kid is k: a key, an entry whose modulus ("badN") or
\* exponent ("badE") is not base64url, or NoKey when the set has no such entry.
JwkVals == Keys \cup {NoKey, "badN", "badE"}
NoKeys == [k \in Kids |-> NoKey]
Answers ==
    {[st |-> s, keys |-> NoKeys] : s \in {"neterr", "non200", "baddoc"}}
    \cup {[st |-> "ok", keys |-> f] : f \in [Kids -> JwkVals]}
\* The answers without undecodable entries.
PlainAnswers == {a \in Answers : \A k \in Kids : a.keys[k] \in Keys \cup {NoKey}}
NoAnswer == [st |-> "none", keys |-> NoKeys]
\* The endpoint takes the request and never answers it.
HangAnswer == [st |-> "hang", keys |-> NoKeys]

KeyCount(resp) == Cardinality({k \in Kids : resp.keys[k] # NoKey})

\* ---------------------------------------------------------------- tokens
Algs == {"HS256", "RS256", "none", "ES256", "bogus"}
Registered == {"HS256", "RS256", "none", "ES256"}
Secrets == {"s1", "s2"}

Jwt(wf, alg, kid, signer, exp, nbf, sub, uid, id) ==
    [wf |-> wf, alg |-> alg, kid |-> kid, signer |-> signer, exp |-> exp,
     nbf |-> nbf, sub |-> sub, user_id |-> uid, id |-> id]

BearerHdr == <<"Bearer", " ", "jwt">>

\* The key each kid is first published with.
KeyOf(k) == IF k = "a" THEN "K1" ELSE "K2"

\* RS256 tokens of a known user, one per kid, signed with the key of that kid.
RSRequests ==
    {[hdr |-> BearerHdr,
      jwt |-> Jwt(TRUE, "RS256", k, KeyOf(k), NoTime, NoTime, "u1", ClaimAbsent, ClaimAbsent)] :
        k \in Kids}

\* Requests for the single-caller specification: one per branch of Auth.
GoodClaims(alg, kid, signer) ==
    Jwt(TRUE, alg, kid, signer, NoTime, NoTime, "u1", ClaimAbsent, ClaimAbsent)

AuthJwts ==
    {GoodClaims(alg, kid, s) :
        alg \in {"HS256", "RS256"}, kid \in Kids \cup {""}, s \in Secrets \cup Keys}
    \cup {GoodClaims(alg, "a", "s1") : alg \in {"none", "ES256", "bogus"}}
    \cup {Jwt(FALSE, "HS256", "", "s1", NoTime, NoTime, "u1", ClaimAbsent, ClaimAbsent)}
    \cup {Jwt(TRUE, b[1], b[2], b[3], t[1], t[2], "u1", ClaimAbsent, ClaimAbsent) :
            b \in {<<"HS256", "", "s1">>, <<"RS256", "a", "K1">>},
            t \in {<<1, NoTime>>, <<2, NoTime>>, <<NoTime, 1>>}}
    \cup {Jwt(TRUE, b[1], b[2], b[3], NoTime, NoTime, c[1], c[2], c[3]) :
            b \in {<<"HS256", "", "s1">>, <<"RS256", "a", "K1">>},
            c \in ({ClaimAbsent, "", ClaimNonString} \X {ClaimAbsent, "u2"} \X {ClaimAbsent})
                  \cup {<<ClaimAbsent, ClaimAbsent, "u3">>}}

AuthRequests ==
    {[hdr |-> BearerHdr, jwt |-> j] : j \in AuthJwts}
    \cup {[hdr |-> h, jwt |-> GoodClaims("HS256", "", "s1")] :
            h \in {<<>>, <<"jwt">>, <<"Bearer">>, <<"Bearer", " ">>,
                   <<"Basic", " ", "jwt">>, <<"Bearer", " ", "jwt", " ", "jwt">>,
                   <<"Bearer", " ", "junk">>}}

VARIABLES
    rev,            \* the revision of auth.go that is running
    now,            \* the wall clock (time.Now())
    jwtSecret,      \* os.Getenv("JWT_SECRET") read by Auth()          (auth.go:30)
    supabaseURL,    \* os.Getenv("SUPABASE_URL") read by Auth()        (auth.go:31)
    cachedKeys,     \* auth.go:21
    cacheExpiries,  \* auth.go:22
    cachedKeysMu,   \* auth.go:23: [readers: set of callers, writer: caller or NoProc]
    pc,             \* where each caller stands
    req,            \* the request a caller is serving
    tnow,           \* the caller's `now` of auth.go:159 (r1 only)
    staleKey,       \* the caller's `staleKey` of auth.go:183
    jwksResp,       \* the answer to the caller's http.Get of auth.go:192
    key,            \* what the key function returned to jwt.Parse (NoKey: an error)
    how,            \* how getSupabasePublicKey returned: "fresh" (auth.go:166, 476),
                    \* "recheck" (178, 513), "stale" (197...), "error" (200..., 519,
                    \* 531), "notfound" (264, 525), "fetched" (306, 538);
                    \* "none": not called
    resp,           \* the caller's last response: [status, error, details] (status 0: none yet)
    user,           \* c.Locals("user") of the caller's last request
    nextCalled,     \* whether c.Next() was called for the caller's last request
    fetches,        \* history: the number of http.Get calls made so far
    awaited,        \* history: what became of the fetch for the caller's kid that
                    \* was made while the caller waited in Lock(): "none" (there
                    \* was no such fetch), "inflight", or the key it returned
                    \* (NoKey: it returned an error)
    rateLimitEnv,   \* os.Getenv("RATE_LIMIT_MAX")                (ratelimit.go:42)
    maxRequests,    \* ratelimit.go:25 (0: RateLimit() has not run yet)
    limiter,        \* the limiter's entry of each key: [currHits, exp]
    handledAt,      \* history: per key and instant, how many requests reached
                    \* the handler of the /api group
    apiResp,        \* the last response on /api
    apiCount,       \* history: the number of requests made on /api so far
    shownAbsent,    \* history: the kids the last successful fetch did not contain
    hub,            \* DefaultHub: "nil" or "ready"                  (part_003:50)
    broadcast,      \* the hub's buffered broadcast channel          (part_003:58)
    clients,        \* the hub's client map                          (part_003:57)
    run,            \* where the Run goroutine stands: [pc, msg, todo, cur, hang]
    hpc,            \* where the handler of each connection stands
    closes,         \* how often the hub has called Close on each connection
    writing,        \* the goroutines inside WriteMessage on each connection
    delivered,      \* history: the broadcast messages written to each connection
    bcastCalls,     \* history: the number of Broadcast calls made so far
    reachable,      \* whether the Realtime endpoint can be reached
    subscription,   \* where the subscriber stands                (part_007:283-303)
    unclosed,       \* connections of goroutines that returned, not closed yet
    losses,         \* history: the number of connection losses so far
    redisClient,    \* cache.GetClient(): "nil" or "ok"
    cacheLog,       \* history: the Set calls made on the cache client
    lastPayload,    \* history: the payload of the last change message
    updates         \* history: the number of change messages so far

vars == <<rev, now, jwtSecret, supabaseURL, cachedKeys, cacheExpiries,
          cachedKeysMu, pc, req, tnow, staleKey, jwksResp, key, how, resp, user,
          nextCalled, fetches, awaited, rateLimitEnv, maxRequests, limiter,
          handledAt, apiResp, apiCount, shownAbsent, hub, broadcast, clients,
          run, hpc, closes, writing, delivered, bcastCalls, reachable, subscription,
          unclosed, losses, redisClient, cacheLog, lastPayload, updates>>

NoReq == [hdr |-> <<>>,
          jwt |-> Jwt(FALSE, "bogus", "", NoKey, NoTime, NoTime,
                      ClaimAbsent, ClaimAbsent, ClaimAbsent)]

\* ------------------------------------------------------ Auth: the header
\* strings.Split(authHeader, " "): the segments between single spaces.
RECURSIVE Split(_)
Split(h) ==
    IF h = <<>> THEN << <<>> >>
    ELSE LET rest == Split(Tail(h)) IN
         IF Head(h) = " " THEN << <<>> >> \o rest
         ELSE << <<Head(h)>> \o Head(rest) >> \o Tail(rest)

\* r1, auth.go:35-48: the error message, "" when the header is "Bearer <token>".
HeaderCheck(hdr) ==
    IF hdr = <<>> THEN "Missing Authorization header"
    ELSE IF Len(Split(hdr)) # 2 \/ Split(hdr)[1] # <<"Bearer">>
         THEN "Invalid Authorization header format"
         ELSE ""

\* r2, auth.go:375-387: the error message, "" when a token is returned.
extractTokenFromHeader(hdr) ==
    IF hdr = <<>> THEN "missing Authorization header"
    ELSE IF Len(Split(hdr)) # 2 \/ Split(hdr)[1] # <<"Bearer">>
         THEN "invalid Authorization header format"
         ELSE ""

\* auth.go:50 and auth.go:386: parts[1].
TokenString(hdr) == Split(hdr)[2]

\* auth.go:53-66 and auth.go:393-397: parser.ParseUnverified succeeds on a
\* three-segment token with decodable header and claims and a registered
\* algorithm.  The chunk "jwt" stands for the compact serialisation of r.jwt.
ParseUnverifiedOK(r) ==
    /\ TokenString(r.hdr) = <<"jwt">>
    /\ r.jwt.wf
    /\ r.jwt.alg \in Registered

\* auth.go:77, 85 and auth.go:435, 443: the type of token.Method.
IsHMAC(alg) == alg = "HS256"
IsRSA(alg) == alg = "RS256"

\* NeedsResolve that does not look at the kid (a faulty variant).
NeedsResolve_AnyKid(r) ==
    /\ HeaderCheck(r.hdr) = ""
    /\ ParseUnverifiedOK(r)
    /\ ~IsHMAC(r.jwt.alg)
    /\ IsRSA(r.jwt.alg)
    /\ supabaseURL # ""

\* NeedsResolve asking for the shared secret as well (a faulty variant).
NeedsResolve_NeedsSecret(r) ==
    /\ HeaderCheck(r.hdr) = ""
    /\ ParseUnverifiedOK(r)
    /\ ~IsHMAC(r.jwt.alg)
    /\ IsRSA(r.jwt.alg)
    /\ supabaseURL # ""
    /\ jwtSecret # ""
    /\ r.jwt.kid # ""

\* auth.go:75-97 and getSigningKey, auth.go:433-454: TRUE when the key
\* function calls getSupabasePublicKey.
NeedsResolve(r) ==
    /\ HeaderCheck(r.hdr) = ""
    /\ ParseUnverifiedOK(r)
    /\ ~IsHMAC(r.jwt.alg)
    /\ IsRSA(r.jwt.alg)
    /\ supabaseURL # ""
    /\ r.jwt.kid # ""

\* auth.go:75-97 and getSigningKey, auth.go:433-454: the key the key function
\* returns without a cache lookup (NoKey: it returns an error).
\* LocalKey handing the secret to every token that is not RSA (a faulty variant).
LocalKey_AnyAlg(r) ==
    IF ~IsRSA(r.jwt.alg) /\ jwtSecret # "" THEN jwtSecret ELSE NoKey

\* LocalKey falling back on the secret for an RSA token that cannot be
\* resolved (a faulty variant).
LocalKey_SecretForRSA(r) ==
    IF (IsHMAC(r.jwt.alg) \/ IsRSA(r.jwt.alg)) /\ jwtSecret # "" THEN jwtSecret ELSE NoKey

\* LocalKey refusing the secret while no remote URL is configured (a faulty
\* variant).
LocalKey_NeedsURL(r) ==
    IF IsHMAC(r.jwt.alg) /\ jwtSecret # "" /\ supabaseURL # "" THEN jwtSecret ELSE NoKey

LocalKey(r) ==
    IF IsHMAC(r.jwt.alg) /\ jwtSecret # "" THEN jwtSecret ELSE NoKey

\* A signature check that passes whatever the key is (a faulty variant).
VerifySignature_Always(j, k) == TRUE

\* jwt.Parse, after the key function: token.Method.Verify.
VerifySignature(j, k) == j.signer = k

\* ValidateClaims accepting a token at the instant of its exp (a faulty
\* variant).
ValidateClaims_InclusiveExp(j, t) ==
    /\ j.exp = NoTime \/ t <= j.exp
    /\ j.nbf = NoTime \/ t >= j.nbf

\* jwt.Parse, after the signature: the validator's exp and nbf checks.
ValidateClaims(j, t) ==
    /\ j.exp = NoTime \/ t < j.exp
    /\ j.nbf = NoTime \/ t >= j.nbf

IsString(c) == c \notin {ClaimAbsent, ClaimNonString}

\* r1, auth.go:135-147.
UserID(j) ==
    IF IsString(j.sub) THEN j.sub
    ELSE IF IsString(j.user_id) THEN j.user_id
    ELSE IF IsString(j.id) THEN j.id
    ELSE NoUser

\* r2, auth.go:458-469.
extractUserIDFromClaims(j) ==
    IF IsString(j.sub) /\ j.sub # "" THEN j.sub
    ELSE IF IsString(j.user_id) /\ j.user_id # "" THEN j.user_id
    ELSE IF IsString(j.id) /\ j.id # "" THEN j.id
    ELSE NoUser

Unauthorized(msg) ==
    [status |-> 401, error |-> msg, details |-> "", user |-> NoUser, next |-> FALSE]

\* ParseOK without the signature check (a faulty variant).
ParseOK_NoSignature(r, k, t) ==
    /\ k # NoKey
    /\ ValidateClaims(r.jwt, t)

\* jwt.Parse as both revisions call it (auth.go:75-119, 403-412): TRUE when it
\* returns a valid token, given the key k its key function returned.
ParseOK(r, k, t) ==
    /\ k # NoKey
    /\ VerifySignature(r.jwt, k)
    /\ ValidateClaims(r.jwt, t)

\* r1, auth.go:33-153: the response to request r when the key function
\* returned k and the claims are validated at time t.
AuthResponse(r, k, t) ==
    IF HeaderCheck(r.hdr) # "" THEN Unauthorized(HeaderCheck(r.hdr))
    ELSE IF ~ParseUnverifiedOK(r) THEN Unauthorized("Invalid token")
    ELSE IF ~ParseOK(r, k, t) THEN Unauthorized("Authentication failed")
    ELSE IF UserID(r.jwt) = NoUser THEN Unauthorized("User ID not found in token")
    ELSE [status |-> 200, error |-> "", details |-> "", user |-> UserID(r.jwt),
          next |-> TRUE]

\* r2, auth.go:342-370, with validateToken (auth.go:391-420).
AuthResponse2(r, k, t) ==
    IF extractTokenFromHeader(r.hdr) # ""
    THEN Unauthorized(extractTokenFromHeader(r.hdr))
    ELSE IF ~ParseUnverifiedOK(r) \/ ~ParseOK(r, k, t)
         THEN Unauthorized("Authentication failed")
    ELSE IF extractUserIDFromClaims(r.jwt) = NoUser
         THEN Unauthorized("user ID not found in token")
    ELSE [status |-> 200, error |-> "", details |-> "",
          user |-> extractUserIDFromClaims(r.jwt), next |-> TRUE]

\* r3, auth.go:674-692: TRUE when jwt.Parse calls the key function and the
\* key function calls getSupabasePublicKey.  No kid is asked for.
NeedsFetch3(r) ==
    /\ HeaderCheck(r.hdr) = ""
    /\ ParseUnverifiedOK(r)
    /\ ~IsHMAC(r.jwt.alg)
    /\ IsRSA(r.jwt.alg)
    /\ supabaseURL # ""

\* r3, auth.go:674-697: err.Error() of the jwt.Parse that failed, as far as
\* it tells the failures apart: the parser's own errors, the error of the key
\* function (auth.go:679, 687, 692; "failed to fetch JWKS" stands for every
\* error of getSupabasePublicKey, auth.go:743-780), the signature error and
\* the validator's errors.
ParseError3(r, k, t) ==
    IF TokenString(r.hdr) # <<"jwt">> \/ ~r.jwt.wf THEN "token is malformed"
    ELSE IF r.jwt.alg \notin Registered THEN "signing method (alg) is unavailable"
    ELSE IF IsHMAC(r.jwt.alg) /\ jwtSecret = "" THEN "JWT_SECRET not configured"
    ELSE IF IsRSA(r.jwt.alg) /\ supabaseURL = ""
         THEN "SUPABASE_URL not configured for RS256"
    ELSE IF ~IsHMAC(r.jwt.alg) /\ ~IsRSA(r.jwt.alg) THEN "unexpected signing method"
    ELSE IF k = NoKey THEN "failed to fetch JWKS"
    ELSE IF ~VerifySignature(r.jwt, k) THEN "token signature is invalid"
    ELSE IF r.jwt.exp # NoTime /\ ~(t < r.jwt.exp) THEN "token is expired"
    ELSE "token is not valid yet"

\* r3, auth.go:654-733.
AuthResponse3(r, k, t) ==
    IF HeaderCheck(r.hdr) # "" THEN Unauthorized(HeaderCheck(r.hdr))
    ELSE IF ~ParseUnverifiedOK(r) \/ ~ParseOK(r, k, t)
         THEN [Unauthorized("Invalid token") EXCEPT !.details = ParseError3(r, k, t)]
    ELSE IF UserID(r.jwt) = NoUser THEN Unauthorized("User ID not found in token")
    ELSE [status |-> 200, error |-> "", details |-> "", user |-> UserID(r.jwt),
          next |-> TRUE]

\* r3, auth.go:738-798: what getSupabasePublicKey makes of the answer of the
\* endpoint when `first` is the kid of jwks.Keys[0].
FirstKeyResult(r, first) ==
    IF r.st # "ok" \/ KeyCount(r) = 0 THEN [key |-> NoKey, how |-> "error"]
    ELSE IF r.keys[first] \in {"badN", "badE"} THEN [key |-> NoKey, how |-> "error"]
    ELSE [key |-> r.keys[first], how |-> "fetched"]

\* ------------------------------------------- getSupabasePublicKey (r1)
\* auth.go:163-164 and auth.go:176-177.
IsFresh(kid, t) ==
    /\ cachedKeys[kid] # NoKey
    /\ cacheExpiries[kid] # NoTime
    /\ t < cacheExpiries[kid]

\* StaleKeyFor without the end of the grace period (a faulty variant).
StaleKeyFor_NoGraceBound(kid, t) ==
    IF cachedKeys[kid] # NoKey /\ cacheExpiries[kid] # NoTime
    THEN cachedKeys[kid]
    ELSE NoKey

\* auth.go:183-188.
StaleKeyFor(kid, t) ==
    IF /\ cachedKeys[kid] # NoKey
       /\ cacheExpiries[kid] # NoTime
       /\ t < cacheExpiries[kid] + gracePeriod
    THEN cachedKeys[kid]
    ELSE NoKey

\* Fallback storing what the failed fetch left it with (a faulty variant).
Fallback_Reinstall(stale) ==
    IF stale # NoKey
    THEN [key |-> stale, how |-> "stale", install |-> TRUE]
    ELSE [key |-> NoKey, how |-> "error", install |-> TRUE]

\* auth.go:195-200 (and 206-211, 226-231, 236-241, 271-276, 282-287).
Fallback(stale) ==
    IF stale # NoKey
    THEN [key |-> stale, how |-> "stale", install |-> FALSE]
    ELSE [key |-> NoKey, how |-> "error", install |-> FALSE]

\* FetchResult falling back on the stale key when the key set lacks the kid
\* (a faulty variant).
FetchResult_StaleOnMissing(r, kid, stale) ==
    IF r.st # "ok" THEN Fallback(stale)
    ELSE IF KeyCount(r) = 0 THEN Fallback(stale)
    ELSE IF r.keys[kid] \in {NoKey, "badN", "badE"} THEN Fallback(stale)
    ELSE [key |-> r.keys[kid], how |-> "fetched", install |-> TRUE]

\* auth.go:192-306: what the call makes of the answer of the endpoint.
FetchResult(r, kid, stale) ==
    IF r.st # "ok" THEN Fallback(stale)
    ELSE IF KeyCount(r) = 0 THEN Fallback(stale)
    ELSE IF r.keys[kid] = NoKey
         THEN [key |-> NoKey, how |-> "notfound", install |-> FALSE]
    ELSE IF r.keys[kid] \in {"badN", "badE"} THEN Fallback(stale)
    ELSE [key |-> r.keys[kid], how |-> "fetched", install |-> TRUE]

\* InstallKeys that stores the key and leaves the expiry map alone (a faulty
\* variant).
InstallKeys_KeyOnly(r, kid, t) ==
    [keys |-> [cachedKeys EXCEPT ![kid] = r.keys[kid]],
     expiries |-> cacheExpiries]

\* InstallKeys storing every decodable key of the set (a faulty variant).
InstallKeys_WholeSet(r, kid, t) ==
    [keys |-> [k \in Kids |-> IF r.keys[k] \in Keys THEN r.keys[k] ELSE cachedKeys[k]],
     expiries |-> [k \in Kids |-> IF r.keys[k] \in Keys THEN t + cacheTTL
                                  ELSE cacheExpiries[k]]]

\* auth.go:302-304 and auth.go:534-536: the cache after the key of kid has
\* been stored with the expiry t + cacheTTL.
InstallKeys(r, kid, t) ==
    [keys |-> [cachedKeys EXCEPT ![kid] = r.keys[kid]],
     expiries |-> [cacheExpiries EXCEPT ![kid] = t + cacheTTL]]

\* ------------------------------------------- getSupabasePublicKey (r2)
\* auth.go:489-504 and getCachedKeyUnsafe, auth.go:542-554: the cached key,
\* NoKey when there is none or time.Now() is after its expiry.
getCachedKey(kid, t) ==
    IF /\ cachedKeys[kid] # NoKey
       /\ cacheExpiries[kid] # NoTime
       /\ ~(t > cacheExpiries[kid])
    THEN cachedKeys[kid]
    ELSE NoKey

\* auth.go:571-594: TRUE when fetchJWKS returns a key set.
fetchJWKS(r) == r.st = "ok" /\ KeyCount(r) # 0

\* auth.go:597-604.
findKeyByKid(r, kid) == r.keys[kid]

\* auth.go:607-631: NoKey when the modulus or the exponent does not decode.
buildRSAPublicKey(keyData) ==
    IF keyData \in {"badN", "badE"} THEN NoKey ELSE keyData

\* auth.go:516-538: what fetchAndCacheKey makes of the answer of the endpoint.
fetchAndCacheKey(r, kid) ==
    IF ~fetchJWKS(r) THEN [key |-> NoKey, how |-> "error", install |-> FALSE]
    ELSE IF findKeyByKid(r, kid) = NoKey
         THEN [key |-> NoKey, how |-> "notfound", install |-> FALSE]
    ELSE IF buildRSAPublicKey(findKeyByKid(r, kid)) = NoKey
         THEN [key |-> NoKey, how |-> "error", install |-> FALSE]
    ELSE [key |-> buildRSAPublicKey(findKeyByKid(r, kid)), how |-> "fetched",
          install |-> TRUE]

\* ------------------------------------------------------ either revision
\* The instant a call compares expiries with: r1 reads the clock once, at
\* auth.go:159; r2 reads it at every lookup (auth.go:499, 549).
CallNow(p) == IF rev = "r1" THEN tnow[p] ELSE now

\* A lookup that never finds the entry (a faulty variant).
Lookup_AlwaysMiss(p) == NoKey

\* The lookup of auth.go:163-168 / auth.go:475: the key, NoKey on a miss.
Lookup(p) ==
    IF rev = "r1"
    THEN IF IsFresh(req[p].jwt.kid, tnow[p]) THEN cachedKeys[req[p].jwt.kid] ELSE NoKey
    ELSE getCachedKey(req[p].jwt.kid, now)

\* RLock() that does not wait for the writer (a faulty variant).
CanRLock_NoExclusion(p) == TRUE
\* sync.RWMutex: when RLock (auth.go:162, 490) and Lock (auth.go:172, 508) return.
CanRLock(p) == cachedKeysMu.writer = NoProc
\* Lock() that excludes nobody (a faulty variant).
CanLock_NoExclusion(p) == TRUE
CanLock(p) == cachedKeysMu.writer = NoProc /\ cachedKeysMu.readers = {}

\* ------------------------------------------------------------ ratelimit.go
\* ratelimit.go:29: Expiration, one minute, scaled to clock ticks.
limiterExpiration == 2
\* ratelimit.go:44, 49.
DefaultMaxRequests == 100

\* The characters RATE_LIMIT_MAX is made of here, and its values: the
\* variable unset or empty (<<>>) and every string of up to MaxEnvLen
\* characters.
EnvChars == {"0", "1", "2", "5", "-", "+", "x"}
EnvStrings == UNION {[1 .. n -> EnvChars] : n \in 0 .. MaxEnvLen}

IsDigit(c) == c \in {"0", "1", "2", "5"}
DigitVal(c) == CASE c = "0" -> 0 [] c = "1" -> 1 [] c = "2" -> 2 [] c = "5" -> 5

\* The value of a string of decimal digits.
RECURSIVE DecimalVal(_)
DecimalVal(s) ==
    IF s = <<>> THEN 0
    ELSE 10 * DecimalVal(SubSeq(s, 1, Len(s) - 1)) + DigitVal(s[Len(s)])

\* The largest int.
IntMax == 2 ^ (IntBits - 1) - 1

\* strconv.Atoi (ratelimit.go:47): an optional sign and at least one decimal
\* digit, nothing else; a value outside int is a range error.
Atoi(s) ==
    LET signed == s # <<>> /\ s[1] \in {"+", "-"}
        digits == IF signed THEN Tail(s) ELSE s
        v == IF signed /\ s[1] = "-" THEN 0 - DecimalVal(digits) ELSE DecimalVal(digits)
    IN  IF digits = <<>> \/ \E i \in 1 .. Len(digits) : ~IsDigit(digits[i])
        THEN [err |-> TRUE, val |-> 0]
        ELSE IF v > IntMax THEN [err |-> TRUE, val |-> IntMax]
        ELSE IF v < 0 - IntMax - 1 THEN [err |-> TRUE, val |-> 0 - IntMax - 1]
        ELSE [err |-> FALSE, val |-> v]

\* getMaxRequests accepting zero and negative values (a faulty variant).
getMaxRequests_NoSignCheck(maxStr) ==
    IF maxStr = <<>> THEN DefaultMaxRequests
    ELSE IF Atoi(maxStr).err THEN DefaultMaxRequests
    ELSE Atoi(maxStr).val

\* ratelimit.go:41-53.
getMaxRequests(maxStr) ==
    IF maxStr = <<>> THEN DefaultMaxRequests
    ELSE IF Atoi(maxStr).err \/ Atoi(maxStr).val <= 0 THEN DefaultMaxRequests
    ELSE Atoi(maxStr).val

\* The callers' addresses (c.IP()) and the requests made on /api: no header,
\* a token with a wrong signature, and tokens signed with the secret whose
\* sub is "u1", "u2" and the empty string.
IPs == {"ip1", "ip2"}
ApiJwt(signer, sub) ==
    Jwt(TRUE, "HS256", "", signer, NoTime, NoTime, sub, ClaimAbsent, ClaimAbsent)
ApiRequests ==
    {[hdr |-> <<>>, jwt |-> ApiJwt("s1", "u1")],
     [hdr |-> BearerHdr, jwt |-> ApiJwt("s2", "u1")],
     [hdr |-> BearerHdr, jwt |-> ApiJwt("s1", "u1")],
     [hdr |-> BearerHdr, jwt |-> ApiJwt("s1", "u2")],
     [hdr |-> BearerHdr, jwt |-> ApiJwt("s1", "")]}

\* ratelimit.go:57-68: "user:" + userIDStr, or c.IP().  userID is
\* c.Locals("user"), NoUser standing for nil.
generateRateLimitKey(userID, ip) ==
    IF userID # NoUser /\ IsString(userID) /\ userID # ""
    THEN <<"user:">> \o <<userID>>
    ELSE <<ip>>

RateKeys == {<<"user:", u>> : u \in {"u1", "u2", ""}} \cup {<<ip>> : ip \in IPs}
NoRateKey == <<>>
NoEntry == [currHits |-> 0, exp |-> 0]

\* ratelimit.go:27-30: the handler limiter.New returns for Max and Expiration
\* (fiber's default, the fixed window): the first request of a key opens a
\* window of Expiration, a request at or after the end of the window opens a
\* new one with the count at zero, and every request is counted.
FixedWindow(e, ts) ==
    LET w == IF e.exp = 0 THEN [e EXCEPT !.exp = ts + limiterExpiration]
             ELSE IF ts >= e.exp
                  THEN [currHits |-> 0, exp |-> ts + limiterExpiration]
                  ELSE e
    IN  [w EXCEPT !.currHits = @ + 1]

\* The limiter letting one request more through (a faulty variant).
LimitReached_OffByOne(e) == maxRequests - e.currHits < -1

\* ratelimit.go:28, 31: remaining = Max - currHits is negative.
LimitReached(e) == maxRequests - e.currHits < 0

\* ---------------------------------------------------------------- Init
\* ===================================================== the WebSocket hub
\* unnamed/part_003 (package handlers).  The hub's three channels, its client
\* map and the goroutines around them: Run (one), a WebSocketHandler per
\* connection, and the callers of Broadcast.
Conns == {"c1", "c2"}
NoConn == "none"
NoMsg == 0
\* part_003:58: make(chan []byte, 256), scaled.
BroadcastCap == 2

RunIdle == [pc |-> "off", msg |-> NoMsg, todo |-> {}, cur |-> NoConn, hang |-> FALSE]

InitHubState ==
    /\ hub = "nil"
    /\ broadcast = <<>>
    /\ clients = {}
    /\ run = RunIdle
    /\ hpc = [c \in Conns |-> "new"]
    /\ closes = [c \in Conns |-> 0]
    /\ writing = [c \in Conns |-> {}]
    /\ delivered = [c \in Conns |-> <<>>]
    /\ bcastCalls = 0

\* ======================================== the Supabase Realtime subscriber
\* unnamed/part_007 (package realtime).  JSON values as ReadJSON decodes them:
\* a string member is its text (ClaimAbsent: no such member, ClaimNonString: a
\* member of another type), a price is its type and, for a number, its value.
EventTypes == {ClaimAbsent, ClaimNonString, "INSERT", "UPDATE", "DELETE"}
ArtistIDs == {ClaimAbsent, ClaimNonString, "a1"}
JsonPrices ==
    {[t |-> "absent", n |-> 0], [t |-> "string", n |-> 0], [t |-> "float64", n |-> 45],
     [t |-> "float64", n |-> 7]}
\* A member that is missing or is not an object.
NoRecord == [present |-> FALSE, artist_id |-> ClaimAbsent, price |-> [t |-> "absent", n |-> 0]]
Records ==
    {[present |-> TRUE, artist_id |-> a, price |-> p] : a \in ArtistIDs, p \in JsonPrices}
GoodRecord == [present |-> TRUE, artist_id |-> "a1", price |-> [t |-> "float64", n |-> 45]]

\* The payloads of the "postgres_changes" messages the connection delivers.
Payloads ==
    {[eventType |-> e, event |-> f, new |-> GoodRecord, record |-> NoRecord] :
        e \in EventTypes, f \in {ClaimAbsent, "INSERT", "DELETE"}}
    \cup {[eventType |-> "UPDATE", event |-> ClaimAbsent, new |-> n, record |-> r] :
            n \in Records \cup {NoRecord}, r \in {NoRecord, GoodRecord}}

NoSet == [key |-> <<>>, value |-> <<>>, ok |-> FALSE]
NoPayload == [eventType |-> ClaimAbsent, event |-> ClaimAbsent, new |-> NoRecord,
              record |-> NoRecord]

InitSubscriber ==
    /\ reachable = TRUE
    /\ subscription = "off"
    /\ unclosed = 0
    /\ losses = 0
    /\ redisClient = "nil"
    /\ cacheLog = [n |-> 0, last |-> NoSet]
    /\ lastPayload = NoPayload
    /\ updates = 0

TypeOK ==
    /\ rev \in Revisions \cup {"r3"}
    /\ now \in 0 .. MaxTime
    /\ cachedKeys \in [Kids -> Keys \cup {NoKey}]
    /\ cacheExpiries \in [Kids -> Int]
    /\ cachedKeysMu.readers \subseteq Procs
    /\ cachedKeysMu.writer \in Procs \cup {NoProc}
    /\ pc \in [Procs -> {"idle", "rlock", "reading", "wlock", "fetching", "verify"}]
    /\ jwksResp \in [Procs -> Answers \cup {NoAnswer, HangAnswer}]
    /\ fetches \in 0 .. MaxFetches
    /\ awaited \in [Procs -> Keys \cup {NoKey, "none", "inflight"}]

InitAuthState ==
    /\ now = 0
    /\ cachedKeys = [k \in Kids |-> NoKey]
    /\ cacheExpiries = [k \in Kids |-> NoTime]
    /\ cachedKeysMu = [readers |-> {}, writer |-> NoProc]
    /\ pc = [p \in Procs |-> "idle"]
    /\ req = [p \in Procs |-> NoReq]
    /\ tnow = [p \in Procs |-> NoTime]
    /\ staleKey = [p \in Procs |-> NoKey]
    /\ jwksResp = [p \in Procs |-> NoAnswer]
    /\ key = [p \in Procs |-> NoKey]
    /\ how = [p \in Procs |-> "none"]
    /\ resp = [p \in Procs |-> [status |-> 0, error |-> "", details |-> ""]]
    /\ user = [p \in Procs |-> NoUser]
    /\ nextCalled = [p \in Procs |-> FALSE]
    /\ fetches = 0
    /\ awaited = [p \in Procs |-> "none"]
    /\ shownAbsent = {}

\* Before setupProtectedRoutes (app.go:168-170) has built the middlewares.
InitRateLimit ==
    /\ maxRequests = 0
    /\ limiter = [k \in RateKeys |-> NoEntry]
    /\ handledAt = [k \in RateKeys |-> [t \in 0 .. MaxTime |-> 0]]
    /\ apiResp = [status |-> 0, error |-> "", user |-> NoUser, ip |-> "",
                  key |-> NoRateKey, handled |-> FALSE]
    /\ apiCount = 0

InitState ==
    /\ InitAuthState
    /\ InitRateLimit
    /\ InitHubState
    /\ InitSubscriber
    /\ rateLimitEnv = <<"2">>

InitCommon ==
    /\ rev \in Revisions
    /\ InitState

Init ==
    /\ InitCommon
    /\ jwtSecret = "s1"
    /\ supabaseURL = "url"

\* ------------------------------------------------------------- actions
config == <<rev, jwtSecret, supabaseURL>>
cache == <<cachedKeys, cacheExpiries>>
result == <<resp, user, nextCalled>>
history == <<fetches, awaited>>
ratelimit == <<rateLimitEnv, maxRequests, limiter, handledAt, apiResp, apiCount>>
websocket == <<hub, broadcast, clients, run, hpc, closes, writing, delivered, bcastCalls>>
subscriber == <<reachable, subscription, unclosed, losses, redisClient, cacheLog, lastPayload,
                updates>>

\* The callers other than p that stand in Lock() for the kid of p's request.
Waiters(p) ==
    {q \in Procs \ {p} : pc[q] = "wlock" /\ req[q].jwt.kid = req[p].jwt.kid}

\* A request arrives (auth.go:33, 342).  Up to the key function everything is
\* local to the request; a call of getSupabasePublicKey goes for the read
\* lock, in r1 after reading the clock (auth.go:159).
Request(p, r) ==
    /\ pc[p] = "idle"
    /\ req' = [req EXCEPT ![p] = r]
    /\ resp' = [resp EXCEPT ![p] = [status |-> 0, error |-> "", details |-> ""]]
    /\ user' = [user EXCEPT ![p] = NoUser]
    /\ nextCalled' = [nextCalled EXCEPT ![p] = FALSE]
    /\ how' = [how EXCEPT ![p] = "none"]
    /\ IF NeedsResolve(r)
       THEN /\ pc' = [pc EXCEPT ![p] = "rlock"]
            /\ tnow' = [tnow EXCEPT ![p] = IF rev = "r1" THEN now ELSE NoTime]
            /\ key' = [key EXCEPT ![p] = NoKey]
       ELSE /\ pc' = [pc EXCEPT ![p] = "verify"]
            /\ tnow' = tnow
            /\ key' = [key EXCEPT ![p] = LocalKey(r)]
    /\ UNCHANGED <<now, config, cache, cachedKeysMu, staleKey, jwksResp, history>>
    /\ UNCHANGED <<ratelimit, websocket, subscriber, shownAbsent>>

\* auth.go:162, 490: RLock().
AcquireRLock(p) ==
    /\ pc[p] = "rlock"
    /\ CanRLock(p)
    /\ cachedKeysMu' = [cachedKeysMu EXCEPT !.readers = @ \cup {p}]
    /\ pc' = [pc EXCEPT ![p] = "reading"]
    /\ UNCHANGED <<now, config, cache, req, tnow, staleKey, jwksResp, key, how, result,
                   history>>
    /\ UNCHANGED <<ratelimit, websocket, subscriber, shownAbsent>>

\* auth.go:163-169, 491-503: the lookup under the read lock, then RUnlock.
ReadCache(p) ==
    /\ pc[p] = "reading"
    /\ cachedKeysMu' = [cachedKeysMu EXCEPT !.readers = @ \ {p}]
    /\ IF Lookup(p) # NoKey
       THEN /\ key' = [key EXCEPT ![p] = Lookup(p)]
            /\ how' = [how EXCEPT ![p] = "fresh"]
            /\ pc' = [pc EXCEPT ![p] = "verify"]
       ELSE /\ pc' = [pc EXCEPT ![p] = "wlock"]
            /\ UNCHANGED <<key, how>>
    /\ UNCHANGED <<now, config, cache, req, tnow, staleKey, jwksResp, result, history>>
    /\ UNCHANGED <<ratelimit, websocket, subscriber, shownAbsent>>

\* auth.go:172-192, 508-517: Lock(), the second lookup and, in r1, the stale
\* key.  A hit returns at once (the deferred Unlock runs); a miss calls
\* http.Get with the lock held, and the endpoint will give it answer ans.
AcquireLock(p, ans) ==
    /\ pc[p] = "wlock"
    /\ CanLock(p)
    /\ IF Lookup(p) # NoKey
       THEN /\ key' = [key EXCEPT ![p] = Lookup(p)]
            /\ how' = [how EXCEPT ![p] = "recheck"]
            /\ pc' = [pc EXCEPT ![p] = "verify"]
            /\ UNCHANGED <<cachedKeysMu, staleKey, jwksResp, history>>
       ELSE /\ fetches < MaxFetches
            /\ fetches' = fetches + 1
            /\ awaited' = [q \in Procs |->
                             IF q \in Waiters(p) THEN "inflight" ELSE awaited[q]]
            /\ staleKey' = [staleKey EXCEPT ![p] =
                              IF rev = "r1" THEN StaleKeyFor(req[p].jwt.kid, tnow[p])
                              ELSE NoKey]
            /\ jwksResp' = [jwksResp EXCEPT ![p] = ans]
            /\ cachedKeysMu' = [cachedKeysMu EXCEPT !.writer = p]
            /\ pc' = [pc EXCEPT ![p] = "fetching"]
            /\ UNCHANGED <<key, how>>
    /\ UNCHANGED <<now, config, cache, req, tnow, result>>
    /\ UNCHANGED <<ratelimit, websocket, subscriber, shownAbsent>>

\* auth.go:192-306, 517-538: http.Get returns; the answer is handled, the
\* cache is updated on success (r1 counts the TTL from the `now` of
\* auth.go:159, r2 from the time.Now() of auth.go:536) and the deferred
\* Unlock runs.  http.Get is called on http.DefaultClient, which has no
\* timeout: it returns when the endpoint answers, and only then.
FetchDoneStep(p) ==
    /\ pc[p] = "fetching"
    /\ jwksResp[p] # HangAnswer
    /\ LET kid == req[p].jwt.kid
           r == IF rev = "r1" THEN FetchResult(jwksResp[p], kid, staleKey[p])
                ELSE fetchAndCacheKey(jwksResp[p], kid)
       IN /\ key' = [key EXCEPT ![p] = r.key]
          /\ how' = [how EXCEPT ![p] = r.how]
          /\ IF r.install
             THEN /\ cachedKeys' = InstallKeys(jwksResp[p], kid, CallNow(p)).keys
                  /\ cacheExpiries' = InstallKeys(jwksResp[p], kid, CallNow(p)).expiries
             ELSE UNCHANGED cache
    /\ cachedKeysMu' = [cachedKeysMu EXCEPT !.writer = NoProc]
    /\ staleKey' = [staleKey EXCEPT ![p] = NoKey]
    /\ jwksResp' = [jwksResp EXCEPT ![p] = NoAnswer]
    /\ awaited' = [q \in Procs |->
                     IF awaited[q] = "inflight" THEN key'[p] ELSE awaited[q]]
    /\ pc' = [pc EXCEPT ![p] = "verify"]
    /\ UNCHANGED <<now, config, req, tnow, result, fetches>>
    /\ UNCHANGED <<ratelimit, websocket, subscriber>>

\* FetchDone in the specifications that do not follow the history of the
\* remote key set.
FetchDone(p) == FetchDoneStep(p) /\ UNCHANGED shownAbsent

\* The kids a key set lacks, and those it has: a transport error, a non-200
\* status, an undecodable body and an empty set show neither.
AbsentIn(r) == IF r.st = "ok" /\ KeyCount(r) # 0 THEN {k \in Kids : r.keys[k] = NoKey} ELSE {}
PresentIn(r) == IF r.st = "ok" /\ KeyCount(r) # 0 THEN {k \in Kids : r.keys[k] # NoKey} ELSE {}

\* FetchDone, with the history of what the successful fetches have shown.
FetchDoneNoted(p) ==
    /\ FetchDoneStep(p)
    /\ shownAbsent' = (shownAbsent \cup AbsentIn(jwksResp[p])) \ PresentIn(jwksResp[p])

\* auth.go:99-153, 353-369: jwt.Parse verifies the signature and the claims
\* with the key it got, and the middleware answers.
Finish(p) ==
    /\ pc[p] = "verify"
    /\ LET a == IF rev = "r1" THEN AuthResponse(req[p], key[p], now)
                ELSE IF rev = "r2" THEN AuthResponse2(req[p], key[p], now)
                ELSE AuthResponse3(req[p], key[p], now)
       IN /\ resp' = [resp EXCEPT ![p] = [status |-> a.status, error |-> a.error,
                                           details |-> a.details]]
          /\ user' = [user EXCEPT ![p] = a.user]
          /\ nextCalled' = [nextCalled EXCEPT ![p] = a.next]
    /\ pc' = [pc EXCEPT ![p] = "idle"]
    /\ req' = [req EXCEPT ![p] = NoReq]
    /\ tnow' = [tnow EXCEPT ![p] = NoTime]
    /\ key' = [key EXCEPT ![p] = NoKey]
    /\ how' = [how EXCEPT ![p] = "none"]
    /\ awaited' = [awaited EXCEPT ![p] = "none"]
    /\ UNCHANGED <<now, config, cache, cachedKeysMu, staleKey, jwksResp, fetches>>
    /\ UNCHANGED <<ratelimit, websocket, subscriber, shownAbsent>>

\* Time passes.
Tick ==
    /\ now < MaxTime
    /\ now' = now + 1
    /\ UNCHANGED <<config, cache, cachedKeysMu, pc, req, tnow, staleKey, jwksResp,
                   key, how, result, history>>
    /\ UNCHANGED <<ratelimit, websocket, subscriber, shownAbsent>>

Next ==
    \/ \E p \in Procs : \E r \in RSRequests : Request(p, r)
    \/ \E p \in Procs : AcquireRLock(p)
    \/ \E p \in Procs : ReadCache(p)
    \/ \E p \in Procs : \E a \in PlainAnswers : AcquireLock(p, a)
    \/ \E p \in Procs : FetchDone(p)
    \/ \E p \in Procs : Finish(p)
    \/ Tick

Spec == Init /\ [][Next]_vars

\* One caller, every kind of request, every configuration, every answer.
InitAuth ==
    /\ InitCommon
    /\ jwtSecret \in {"", "s1"}
    /\ supabaseURL \in {"", "url"}

NextAuth ==
    \/ \E r \in AuthRequests : Request(1, r)
    \/ AcquireRLock(1)
    \/ ReadCache(1)
    \/ \E a \in Answers : AcquireLock(1, a)
    \/ FetchDone(1)
    \/ Finish(1)
    \/ Tick

SpecAuth == InitAuth /\ [][NextAuth]_vars

\* The revision without a cache (r3), one caller.  A request is answered from
\* what it carries, or after a fetch of its own (auth.go:741), made without
\* any lock.
Request3(p, r, ans) ==
    /\ pc[p] = "idle"
    /\ req' = [req EXCEPT ![p] = r]
    /\ resp' = [resp EXCEPT ![p] = [status |-> 0, error |-> "", details |-> ""]]
    /\ user' = [user EXCEPT ![p] = NoUser]
    /\ nextCalled' = [nextCalled EXCEPT ![p] = FALSE]
    /\ how' = [how EXCEPT ![p] = "none"]
    /\ IF NeedsFetch3(r)
       THEN /\ fetches < MaxFetches
            /\ fetches' = fetches + 1
            /\ jwksResp' = [jwksResp EXCEPT ![p] = ans]
            /\ pc' = [pc EXCEPT ![p] = "fetching"]
            /\ key' = [key EXCEPT ![p] = NoKey]
       ELSE /\ pc' = [pc EXCEPT ![p] = "verify"]
            /\ key' = [key EXCEPT ![p] = LocalKey(r)]
            /\ UNCHANGED <<fetches, jwksResp>>
    /\ UNCHANGED <<now, config, cache, cachedKeysMu, tnow, staleKey, awaited>>
    /\ UNCHANGED <<ratelimit, websocket, subscriber, shownAbsent>>

\* auth.go:741-797: http.Get returns and the first key of the set is built.
FetchDone3(p, first) ==
    /\ pc[p] = "fetching"
    /\ jwksResp[p] # HangAnswer
    /\ KeyCount(jwksResp[p]) > 0 => jwksResp[p].keys[first] # NoKey
    /\ key' = [key EXCEPT ![p] = FirstKeyResult(jwksResp[p], first).key]
    /\ how' = [how EXCEPT ![p] = FirstKeyResult(jwksResp[p], first).how]
    /\ jwksResp' = [jwksResp EXCEPT ![p] = NoAnswer]
    /\ pc' = [pc EXCEPT ![p] = "verify"]
    /\ UNCHANGED <<now, config, cache, cachedKeysMu, req, tnow, staleKey, result, history>>
    /\ UNCHANGED <<ratelimit, websocket, subscriber, shownAbsent>>

InitFirstKey ==
    /\ rev = "r3"
    /\ InitState
    /\ jwtSecret \in {"", "s1"}
    /\ supabaseURL \in {"", "url"}

NextFirstKey ==
    \/ \E r \in AuthRequests : \E a \in Answers : Request3(1, r, a)
    \/ \E k \in Kids : FetchDone3(1, k)
    \/ Finish(1)
    \/ Tick

SpecFirstKey == InitFirstKey /\ [][NextFirstKey]_vars

\* A wave: every caller makes one call, all for the same kid, which the cache
\* does not hold; the calls overlap (none returns before all have arrived)
\* and fall within one clock tick.
WaveRequest == CHOOSE r \in RSRequests : r.jwt.kid = "a"
Arrived(q) == req[q] # NoReq \/ resp[q].status # 0

NextWave ==
    \/ \E p \in Procs : resp[p].status = 0 /\ Request(p, WaveRequest)
    \/ \E p \in Procs : AcquireRLock(p)
    \/ \E p \in Procs : ReadCache(p)
    \/ \E p \in Procs : \E a \in PlainAnswers : AcquireLock(p, a)
    \/ \E p \in Procs : FetchDone(p)
    \/ \E p \in Procs : (\A q \in Procs : Arrived(q)) /\ Finish(p)

SpecWave == Init /\ [][NextWave]_vars

\* Every caller makes one call, and the endpoint may leave a request without
\* an answer.  The scheduler runs every goroutine that can take a step.
Arrive(p) == resp[p].status = 0 /\ \E r \in RSRequests : Request(p, r)
Proceed(p) ==
    \/ AcquireRLock(p)
    \/ ReadCache(p)
    \/ \E a \in PlainAnswers \cup {HangAnswer} : AcquireLock(p, a)
    \/ FetchDone(p)
    \/ Finish(p)

NextLive == \E p \in Procs : Arrive(p) \/ Proceed(p)

SpecLive == Init /\ [][NextLive]_vars /\ \A p \in Procs : WF_vars(Proceed(p))

\* ------------------------------------------- two callers, failing requests
\* One request for each way Auth refuses a request (auth.go:36, 44, 96, 91,
\* jwt.Parse's signature and exp checks, 143).
FailureKinds ==
    {"missing credential", "malformed credential", "unsupported algorithm",
     "key resolution failure", "invalid signature", "expired", "missing claim"}

RequestOfKind(kd) ==
    CASE kd = "missing credential" ->
           [hdr |-> <<>>, jwt |-> GoodClaims("HS256", "", "s1")]
      [] kd = "malformed credential" ->
           [hdr |-> <<"Basic", " ", "jwt">>, jwt |-> GoodClaims("HS256", "", "s1")]
      [] kd = "unsupported algorithm" ->
           [hdr |-> BearerHdr, jwt |-> GoodClaims("none", "a", "s1")]
      [] kd = "key resolution failure" ->
           [hdr |-> BearerHdr, jwt |-> GoodClaims("RS256", "", "K1")]
      [] kd = "invalid signature" ->
           [hdr |-> BearerHdr, jwt |-> GoodClaims("HS256", "", "s2")]
      [] kd = "expired" ->
           [hdr |-> BearerHdr,
            jwt |-> Jwt(TRUE, "HS256", "", "s1", 1, NoTime, "u1", ClaimAbsent, ClaimAbsent)]
      [] kd = "missing claim" ->
           [hdr |-> BearerHdr,
            jwt |-> Jwt(TRUE, "HS256", "", "s1", NoTime, NoTime,
                        ClaimAbsent, ClaimAbsent, ClaimAbsent)]

InitKinds ==
    /\ rev \in Revisions \cup {"r3"}
    /\ InitState
    /\ jwtSecret = "s1"
    /\ supabaseURL = "url"

\* In the revisions that resolve by kid the RSA token without kid is refused
\* by the key function (auth.go:90-92, 447-449); in r3 it causes a fetch, which
\* fails here.
NextKinds ==
    \/ \E p \in Procs : \E kd \in FailureKinds :
          rev # "r3" /\ Request(p, RequestOfKind(kd))
    \/ \E p \in Procs : \E kd \in FailureKinds :
          rev = "r3" /\ Request3(p, RequestOfKind(kd), [st |-> "neterr", keys |-> NoKeys])
    \/ \E p \in Procs : \E k \in Kids : FetchDone3(p, k)
    \/ \E p \in Procs : Finish(p)
    \/ Tick

SpecKinds == InitKinds /\ [][NextKinds]_vars

\* ----------------------------------------------------- the /api group
authVars == <<rev, now, jwtSecret, supabaseURL, cachedKeys, cacheExpiries,
              cachedKeysMu, pc, req, tnow, staleKey, jwksResp, key, how, resp, user,
              nextCalled, fetches, awaited, shownAbsent>>

\* ratelimit.go:24-25, called once by setupProtectedRoutes (app.go:169).
BuildRateLimit ==
    /\ maxRequests = 0
    /\ maxRequests' = getMaxRequests(rateLimitEnv)
    /\ UNCHANGED <<authVars, rateLimitEnv, limiter, handledAt, apiResp, apiCount>>
    /\ UNCHANGED <<websocket, subscriber>>

\* What Auth() answers to a request whose token needs no key from the cache.
AuthOf(r) ==
    IF rev = "r1" THEN AuthResponse(r, LocalKey(r), now)
    ELSE IF rev = "r2" THEN AuthResponse2(r, LocalKey(r), now)
    ELSE AuthResponse3(r, LocalKey(r), now)

\* app.go:168-177: a request on /api/profile from address ip goes through
\* Auth(), then through RateLimit(), then to the handler.  Auth answers 401
\* itself or sets c.Locals("user") and calls c.Next(); the limiter counts the
\* request under its key and answers 429 (ratelimit.go:31-35) or calls
\* c.Next(); the handler answers 200.
ApiRequest(ip, r) ==
    /\ maxRequests # 0
    /\ apiCount < MaxApiRequests
    /\ apiCount' = apiCount + 1
    /\ LET a == AuthOf(r)
           k == generateRateLimitKey(a.user, ip)
           e == FixedWindow(limiter[k], now)
       IN  IF ~a.next
           THEN /\ apiResp' = [status |-> a.status, error |-> a.error, user |-> NoUser,
                               ip |-> ip, key |-> NoRateKey, handled |-> FALSE]
                /\ UNCHANGED <<limiter, handledAt>>
           ELSE /\ limiter' = [limiter EXCEPT ![k] = e]
                /\ IF LimitReached(e)
                   THEN /\ apiResp' = [status |-> 429, error |-> "Rate limit exceeded",
                                       user |-> a.user, ip |-> ip, key |-> k,
                                       handled |-> FALSE]
                        /\ UNCHANGED handledAt
                   ELSE /\ apiResp' = [status |-> 200, error |-> "", user |-> a.user,
                                       ip |-> ip, key |-> k, handled |-> TRUE]
                        /\ handledAt' = [handledAt EXCEPT ![k][now] = @ + 1]
    /\ UNCHANGED <<authVars, rateLimitEnv, maxRequests>>
    /\ UNCHANGED <<websocket, subscriber>>

InitApi ==
    /\ rev \in Revisions \cup {"r3"}
    /\ InitState
    /\ jwtSecret = "s1"
    /\ supabaseURL = "url"

NextApi ==
    \/ BuildRateLimit
    \/ \E ip \in IPs : \E r \in ApiRequests : ApiRequest(ip, r)
    \/ Tick

SpecApi == InitApi /\ [][NextApi]_vars

\* RateLimit() built with each value of RATE_LIMIT_MAX.
InitMax ==
    /\ rev \in Revisions
    /\ InitAuthState
    /\ InitRateLimit
    /\ InitHubState
    /\ InitSubscriber
    /\ rateLimitEnv \in EnvStrings
    /\ jwtSecret = "s1"
    /\ supabaseURL = "url"

NextMax == BuildRateLimit

SpecMax == InitMax /\ [][NextMax]_vars

\* ===================================================== the WebSocket hub
\* unnamed/part_003 (package handlers): the goroutines around the hub: Run
\* (one), a WebSocketHandler per connection, and the callers of Broadcast.
\* The process is gone: a panic in the Run goroutine is not recovered.
Crashed == run.pc = "crashed"

\* part_003:54-68: InitHub builds the hub and starts Run.
InitHub ==
    /\ hub = "nil"
    /\ hub' = "ready"
    /\ run' = [RunIdle EXCEPT !.pc = "select"]
    /\ UNCHANGED <<broadcast, clients, hpc, closes, writing, delivered, bcastCalls>>
    /\ UNCHANGED <<authVars, ratelimit, subscriber>>

\* A select that has no default branch: the send is taken whatever the
\* buffer holds (a faulty variant).
BroadcastSelect_NoDefault(q) == "send"

\* part_003:134-142: the branch the select takes; the send is ready exactly
\* when the buffer has room.
BroadcastSelect(q) == IF Len(q) < BroadcastCap THEN "send" ELSE "default"

\* part_003:129-143: the channel after Broadcast(m) has returned.
BroadcastResult(h, q, m) ==
    IF h = "nil" THEN q
    ELSE IF BroadcastSelect(q) = "send" THEN Append(q, m)
    ELSE q

\* part_003:129-143: a goroutine calls Broadcast; the message is the
\* bcastCalls-th one handed to the hub.
Broadcast ==
    /\ ~Crashed
    /\ bcastCalls < MaxBroadcasts
    /\ bcastCalls' = bcastCalls + 1
    /\ broadcast' = BroadcastResult(hub, broadcast, bcastCalls + 1)
    /\ UNCHANGED <<hub, clients, run, hpc, closes, writing, delivered>>
    /\ UNCHANGED <<authVars, ratelimit, subscriber>>

\* part_003:153-166: a connection is upgraded and its handler starts: without
\* a hub it closes the connection and returns, otherwise it goes to send
\* itself on the register channel.
Connect(c) ==
    /\ ~Crashed
    /\ hpc[c] = "new"
    /\ hpc' = [hpc EXCEPT ![c] = IF hub = "nil" THEN "closed" ELSE "register"]
    /\ UNCHANGED <<hub, broadcast, clients, run, closes, writing, delivered, bcastCalls>>
    /\ UNCHANGED <<authVars, ratelimit, subscriber>>

\* part_003:87 with part_003:166: Run receives from the unbuffered register
\* channel; the handler's send returns and it goes on to read.
RunRegister(c) ==
    /\ run.pc = "select"
    /\ hpc[c] = "register"
    /\ hpc' = [hpc EXCEPT ![c] = "read"]
    /\ run' = [run EXCEPT !.pc = "register", !.cur = c]
    /\ UNCHANGED <<hub, broadcast, clients, closes, writing, delivered, bcastCalls>>
    /\ UNCHANGED <<authVars, ratelimit, subscriber>>

\* part_003:89-92: the connection enters the client map.
RunRegisterInsert ==
    /\ run.pc = "register"
    /\ clients' = clients \cup {run.cur}
    /\ run' = [run EXCEPT !.pc = "select", !.cur = NoConn]
    /\ UNCHANGED <<hub, broadcast, hpc, closes, writing, delivered, bcastCalls>>
    /\ UNCHANGED <<authVars, ratelimit, subscriber>>

\* part_003:95-103 with part_003:170: Run receives from the unbuffered
\* unregister channel (the handler's deferred send returns and the handler
\* ends); a connection still in the map is deleted and closed.
RunUnregister(c) ==
    /\ run.pc = "select"
    /\ hpc[c] = "unregister"
    /\ hpc' = [hpc EXCEPT ![c] = "done"]
    /\ clients' = clients \ {c}
    /\ closes' = [closes EXCEPT ![c] = IF c \in clients THEN @ + 1 ELSE @]
    /\ UNCHANGED <<hub, broadcast, run, writing, delivered, bcastCalls>>
    /\ UNCHANGED <<authVars, ratelimit, subscriber>>

\* part_003:106-109: Run receives a message from the broadcast channel and
\* starts ranging over the client map.
RunDequeue ==
    /\ run.pc = "select"
    /\ broadcast # <<>>
    /\ broadcast' = Tail(broadcast)
    /\ run' = IF clients = {}
              THEN [run EXCEPT !.msg = NoMsg]
              ELSE [run EXCEPT !.pc = "broadcast", !.msg = Head(broadcast),
                               !.todo = clients]
    /\ UNCHANGED <<hub, clients, hpc, closes, writing, delivered, bcastCalls>>
    /\ UNCHANGED <<authVars, ratelimit, subscriber>>

\* part_003:109-111: the loop reaches client c and calls conn.WriteMessage.
\* The connection has no write deadline: the call returns when the peer has
\* taken the frame or the connection has failed, and a peer that has stopped
\* reading (hangs) lets neither happen.
RunWriteBegin(c, hangs) ==
    /\ run.pc = "broadcast"
    /\ c \in run.todo
    /\ writing' = [writing EXCEPT ![c] = @ \cup {"hub"}]
    /\ run' = [run EXCEPT !.pc = "write", !.cur = c, !.hang = hangs]
    /\ UNCHANGED <<hub, broadcast, clients, hpc, closes, delivered, bcastCalls>>
    /\ UNCHANGED <<authVars, ratelimit, subscriber>>

\* part_003:111-118: WriteMessage returns; on an error the client is deleted
\* from the map and closed, and the loop goes on.  A write on a closed
\* connection fails.
RunWriteEnd(ok) ==
    /\ run.pc = "write"
    /\ ~run.hang
    /\ ok => closes[run.cur] = 0
    /\ writing' = [writing EXCEPT ![run.cur] = @ \ {"hub"}]
    /\ IF ok
       THEN /\ delivered' = [delivered EXCEPT ![run.cur] = Append(@, run.msg)]
            /\ UNCHANGED <<clients, closes>>
       ELSE /\ clients' = clients \ {run.cur}
            /\ closes' = [closes EXCEPT ![run.cur] = @ + 1]
            /\ UNCHANGED delivered
    /\ run' = IF run.todo \ {run.cur} = {}
              THEN [run EXCEPT !.pc = "select", !.msg = NoMsg, !.todo = {},
                               !.cur = NoConn]
              ELSE [run EXCEPT !.pc = "broadcast", !.todo = @ \ {run.cur},
                               !.cur = NoConn]
    /\ UNCHANGED <<hub, broadcast, hpc, bcastCalls>>
    /\ UNCHANGED <<authVars, ratelimit, subscriber>>

\* part_003:111 against part_003:192: the connection allows one writer at a
\* time; when Run writes while the handler of the same connection is writing
\* its echo, the library may detect it and panic ("concurrent write to
\* websocket connection"), and a panic in Run ends the process.
RunWritePanic ==
    /\ run.pc = "write"
    /\ "handler" \in writing[run.cur]
    /\ run' = [run EXCEPT !.pc = "crashed"]
    /\ UNCHANGED <<hub, broadcast, clients, hpc, closes, writing, delivered, bcastCalls>>
    /\ UNCHANGED <<authVars, ratelimit, subscriber>>

\* part_003:176-192: ReadMessage returns in the handler of c: a text message,
\* which the handler starts to echo, or an error (the peer has gone, or the
\* connection was closed), which ends the loop and runs the deferred send on
\* the unregister channel.  Messages of other types change nothing.
HandlerRead(c, text) ==
    /\ ~Crashed
    /\ hpc[c] = "read"
    /\ text => closes[c] = 0
    /\ IF text
       THEN /\ hpc' = [hpc EXCEPT ![c] = "echo"]
            /\ writing' = [writing EXCEPT ![c] = @ \cup {"handler"}]
       ELSE /\ hpc' = [hpc EXCEPT ![c] = "unregister"]
            /\ UNCHANGED writing
    /\ UNCHANGED <<hub, broadcast, clients, run, closes, delivered, bcastCalls>>
    /\ UNCHANGED <<authVars, ratelimit, subscriber>>

\* part_003:192-195: the echo's WriteMessage returns; an error ends the loop.
HandlerEchoEnd(c, ok) ==
    /\ ~Crashed
    /\ hpc[c] = "echo"
    /\ ok => closes[c] = 0
    /\ writing' = [writing EXCEPT ![c] = @ \ {"handler"}]
    /\ hpc' = [hpc EXCEPT ![c] = IF ok THEN "read" ELSE "unregister"]
    /\ UNCHANGED <<hub, broadcast, clients, run, closes, delivered, bcastCalls>>
    /\ UNCHANGED <<authVars, ratelimit, subscriber>>

\* part_003:82-123: one step of the Run goroutine.
Run ==
    \/ \E c \in Conns : RunRegister(c)
    \/ RunRegisterInsert
    \/ \E c \in Conns : RunUnregister(c)
    \/ RunDequeue
    \/ \E c \in Conns : \E h \in BOOLEAN : RunWriteBegin(c, h)
    \/ \E ok \in BOOLEAN : RunWriteEnd(ok)
    \/ RunWritePanic

\* part_003:153-198: one step of the handler of connection c.
WebSocketHandler(c) ==
    \/ Connect(c)
    \/ \E text \in BOOLEAN : HandlerRead(c, text)
    \/ \E ok \in BOOLEAN : HandlerEchoEnd(c, ok)

\* ======================================== the Supabase Realtime subscriber
\* part_007:171-179: the event type, ClaimAbsent when neither member is a string.
EventTypeOf(payload) ==
    IF payload.eventType \notin {ClaimAbsent, ClaimNonString} THEN payload.eventType
    ELSE IF payload.event \notin {ClaimAbsent, ClaimNonString} THEN payload.event
    ELSE ClaimAbsent

\* part_007:188-196: the record, from "new" or else from "record".
RecordOf(payload) ==
    IF payload.new.present THEN payload.new
    ELSE IF payload.record.present THEN payload.record
    ELSE NoRecord

\* extractPriceFromRecord that takes a price of any type (a faulty variant).
extractPriceFromRecord_AnyPrice(record) ==
    IF record.artist_id \in {ClaimAbsent, ClaimNonString}
    THEN [artistID |-> "", price |-> 0, ok |-> FALSE]
    ELSE IF record.price.t = "absent"
    THEN [artistID |-> "", price |-> 0, ok |-> FALSE]
    ELSE [artistID |-> record.artist_id, price |-> record.price.n, ok |-> TRUE]

\* part_007:131-165.
extractPriceFromRecord(record) ==
    IF record.artist_id \in {ClaimAbsent, ClaimNonString}
    THEN [artistID |-> "", price |-> 0, ok |-> FALSE]
    ELSE IF record.price.t \notin {"float64", "float32", "int", "int64"}
    THEN [artistID |-> "", price |-> 0, ok |-> FALSE]
    ELSE [artistID |-> record.artist_id, price |-> record.price.n, ok |-> TRUE]

\* part_007:241-245: the JSON text of a price (whole numbers here), as the
\* sequence of its digits.
DigitChars == <<"0", "1", "2", "3", "4", "5", "6", "7", "8", "9">>
RECURSIVE formatPrice(_)
formatPrice(price) ==
    IF price < 10 THEN <<DigitChars[price + 1]>>
    ELSE formatPrice(price \div 10) \o <<DigitChars[(price % 10) + 1]>>

\* part_007:220-229: the JSON of the PriceUpdate.
PriceUpdate(artistID, price, eventType) ==
    [artist_id |-> artistID, price |-> formatPrice(price), event |-> eventType]

\* part_007:169-238: what handlePriceUpdate does with a payload: whether it
\* gets past its early returns, the Set call it makes (NoSet: none; setOK is
\* what Set will return) and the message it hands to Broadcast.
handlePriceUpdate(payload, client, setOK) ==
    LET eventType == EventTypeOf(payload)
        newRecord == RecordOf(payload)
        x == extractPriceFromRecord(newRecord)
    IN  IF eventType = ClaimAbsent THEN [acts |-> FALSE, set |-> NoSet, msg |-> NoMsg]
        ELSE IF eventType # "INSERT" /\ eventType # "UPDATE"
        THEN [acts |-> FALSE, set |-> NoSet, msg |-> NoMsg]
        ELSE IF ~newRecord.present THEN [acts |-> FALSE, set |-> NoSet, msg |-> NoMsg]
        ELSE IF ~x.ok THEN [acts |-> FALSE, set |-> NoSet, msg |-> NoMsg]
        ELSE [acts |-> TRUE,
              set |-> IF client = "nil" THEN NoSet
                      ELSE [key |-> <<"price:", x.artistID>>,
                            value |-> formatPrice(x.price), ok |-> setOK],
              msg |-> PriceUpdate(x.artistID, x.price, eventType)]

\* part_007:36-61 called from main.go:46, after main.go:22 and main.go:28:
\* with both environment variables set, the cache client exists or cache.Init
\* is tried (cacheOK: with success), the hub is built if there is none, and
\* subscribeViaWebSocket is entered.
SubscribeToPrices(cacheOK) ==
    /\ subscription = "off"
    /\ subscription' = "dial"
    /\ redisClient' = IF cacheOK THEN "ok" ELSE "nil"
    /\ IF hub = "nil"
       THEN /\ hub' = "ready"
            /\ run' = [RunIdle EXCEPT !.pc = "select"]
       ELSE UNCHANGED <<hub, run>>
    /\ UNCHANGED <<reachable, unclosed, losses, cacheLog, lastPayload, updates>>
    /\ UNCHANGED <<broadcast, clients, hpc, closes, writing, delivered, bcastCalls>>
    /\ UNCHANGED <<authVars, ratelimit>>

\* part_007:285-293: connectToRealtime dials the endpoint; on an error
\* subscribeViaWebSocket logs and returns.
Dial ==
    /\ subscription = "dial"
    /\ subscription' = IF reachable THEN "join" ELSE "ended"
    /\ UNCHANGED <<reachable, unclosed, losses, redisClient, cacheLog, lastPayload, updates>>
    /\ UNCHANGED websocket
    /\ UNCHANGED <<authVars, ratelimit>>

\* part_007:296-302: subscribeToTable writes the phx_join of artist_metrics;
\* on an error subscribeViaWebSocket returns (the deferred Close runs),
\* otherwise it enters listenForUpdates.
Join(ok) ==
    /\ subscription = "join"
    /\ ok => reachable
    /\ subscription' = IF ok THEN "listen" ELSE "ended"
    /\ UNCHANGED <<reachable, unclosed, losses, redisClient, cacheLog, lastPayload, updates>>
    /\ UNCHANGED websocket
    /\ UNCHANGED <<authVars, ratelimit>>

\* part_007:255-260: ReadJSON returns an error: the connection is lost and
\* the loop sleeps five seconds.
ListenError ==
    /\ subscription = "listen"
    /\ losses < MaxLosses
    /\ losses' = losses + 1
    /\ subscription' = "sleep"
    /\ UNCHANGED <<reachable, unclosed, redisClient, cacheLog, lastPayload, updates>>
    /\ UNCHANGED websocket
    /\ UNCHANGED <<authVars, ratelimit>>

\* part_007:263-264: the sleep is over: subscribeViaWebSocket is started in a
\* new goroutine and listenForUpdates returns; the old connection is closed
\* by the deferred Close of part_007:293, which runs beside the new goroutine.
Resubscribe ==
    /\ subscription = "sleep"
    /\ subscription' = "dial"
    /\ unclosed' = unclosed + 1
    /\ UNCHANGED <<reachable, losses, redisClient, cacheLog, lastPayload, updates>>
    /\ UNCHANGED websocket
    /\ UNCHANGED <<authVars, ratelimit>>

\* part_007:293: the deferred conn.Close() of a goroutine that has returned.
CloseOld ==
    /\ unclosed > 0
    /\ unclosed' = unclosed - 1
    /\ UNCHANGED <<reachable, subscription, losses, redisClient, cacheLog, lastPayload, updates>>
    /\ UNCHANGED websocket
    /\ UNCHANGED <<authVars, ratelimit>>

\* part_007:255-276: ReadJSON returns a "postgres_changes" message whose
\* payload is an object, and handlePriceUpdate runs on it (part_007:169-238),
\* Broadcast (part_003:129-143) included.  Other messages change nothing.
ListenMessage(payload, setOK) ==
    /\ subscription = "listen"
    /\ updates < MaxUpdates
    /\ updates' = updates + 1
    /\ lastPayload' = payload
    /\ LET r == handlePriceUpdate(payload, redisClient, setOK)
       IN  /\ cacheLog' = IF r.set = NoSet THEN cacheLog
                          ELSE [n |-> cacheLog.n + 1, last |-> r.set]
           /\ IF r.acts /\ hub # "nil"
              THEN /\ bcastCalls' = bcastCalls + 1
                   /\ broadcast' = BroadcastResult(hub, broadcast, r.msg)
              ELSE UNCHANGED <<bcastCalls, broadcast>>
    /\ UNCHANGED <<reachable, subscription, unclosed, losses, redisClient>>
    /\ UNCHANGED <<hub, clients, run, hpc, closes, writing, delivered>>
    /\ UNCHANGED <<authVars, ratelimit>>

\* The remote endpoint goes away or comes back.
EndpointChange ==
    /\ reachable' = ~reachable
    /\ UNCHANGED <<subscription, unclosed, losses, redisClient, cacheLog, lastPayload, updates>>
    /\ UNCHANGED websocket
    /\ UNCHANGED <<authVars, ratelimit>>

\* ------------------------------------------------- the hub on its own
\* main.go:28 builds the hub; connections come and go and Broadcast is
\* called while Run serves its three channels.
InitHubOnly ==
    /\ rev = "r2"
    /\ InitState
    /\ jwtSecret = "s1"
    /\ supabaseURL = "url"

NextHub ==
    \/ InitHub
    \/ Broadcast
    \/ Run
    \/ \E c \in Conns : WebSocketHandler(c)

SpecHub == InitHubOnly /\ [][NextHub]_vars

\* The scheduler runs every goroutine that can take a step, and a write that
\* can return does return; when a peer sends or goes away is up to the peer.
SpecHubLive ==
    /\ InitHubOnly /\ [][NextHub]_vars
    /\ WF_vars(InitHub)
    /\ WF_vars(Run)
    /\ \A c \in Conns : WF_vars(Connect(c) \/ \E ok \in BOOLEAN : HandlerEchoEnd(c, ok))

\* ------------------------------------------- the subscriber and the hub
\* main.go:28 and main.go:46: the hub is built, the subscriber is started,
\* and Run drains the broadcast channel (no client is connected).
NextRealtime ==
    \/ InitHub
    \/ \E cacheOK \in BOOLEAN : SubscribeToPrices(cacheOK)
    \/ Dial
    \/ \E ok \in BOOLEAN : Join(ok)
    \/ ListenError
    \/ Resubscribe
    \/ CloseOld
    \/ \E payload \in Payloads : \E setOK \in BOOLEAN : ListenMessage(payload, setOK)
    \/ EndpointChange
    \/ RunDequeue

SpecRealtime == InitHubOnly /\ [][NextRealtime]_vars

\* The scheduler runs the subscriber's goroutines; what the endpoint does is
\* up to the endpoint.
SpecRealtimeLive ==
    /\ InitHubOnly /\ [][NextRealtime]_vars
    /\ WF_vars(\E cacheOK \in BOOLEAN : SubscribeToPrices(cacheOK))
    /\ WF_vars(Dial)
    /\ WF_vars(\E ok \in BOOLEAN : Join(ok))
    /\ WF_vars(Resubscribe)
    /\ WF_vars(CloseOld)

\* --------------------------------------------------- key rotation, one caller
\* One caller asks for keys while the remote key set changes; the history of
\* what the successful fetches have shown is kept.
NextRotate ==
    \/ \E r \in RSRequests : Request(1, r)
    \/ AcquireRLock(1)
    \/ ReadCache(1)
    \/ \E a \in PlainAnswers \cup {[st |-> "neterr", keys |-> NoKeys]} : AcquireLock(1, a)
    \/ FetchDoneNoted(1)
    \/ Finish(1)
    \/ Tick

SpecRotate == Init /\ [][NextRotate]_vars

\* =================================================================== claims

\* The step in which caller p answers its request.
Answering(p) == pc[p] = "verify" /\ pc'[p] = "idle"

\* ---- C1
\* Token extraction: the header is exactly "Bearer", one space, one token that
\* parses as a JWT with a registered algorithm.
C1_Extracted(p) ==
    /\ req[p].hdr = <<"Bearer", " ", "jwt">>
    /\ req[p].jwt.wf
    /\ req[p].jwt.alg \in Registered
\* Key resolution: a symmetric token got the configured secret, an asymmetric
\* token got a key out of getSupabasePublicKey.
C1_KeyResolved(p) ==
    \/ req[p].jwt.alg = "HS256" /\ jwtSecret # "" /\ key[p] = jwtSecret
    \/ /\ req[p].jwt.alg = "RS256" /\ supabaseURL # "" /\ req[p].jwt.kid \in Kids
       /\ how[p] \in {"fresh", "recheck", "fetched", "stale"}
       /\ key[p] \in Keys
\* Subject extraction: one of the identity claims is a string (r1), a
\* non-empty string (r2).
C1_SubjectExtracted(p) ==
    \E c \in {req[p].jwt.sub, req[p].jwt.user_id, req[p].jwt.id} :
        /\ c \notin {ClaimAbsent, ClaimNonString}
        /\ rev = "r2" => c # ""
C1_AllSucceeded(p) ==
    /\ C1_Extracted(p)
    /\ C1_KeyResolved(p)
    /\ req[p].jwt.signer = key[p]
    /\ req[p].jwt.exp # NoTime => now < req[p].jwt.exp
    /\ req[p].jwt.nbf # NoTime => req[p].jwt.nbf <= now
    /\ C1_SubjectExtracted(p)

\* C1: Auth calls the downstream handler and attaches an identity only if
\* token extraction, key resolution, signature verification, the time-claim
\* checks and subject extraction all succeeded for the request; in every
\* other case it answers 401, calls no handler and attaches no identity.
C1_OnlyVerifiedPass ==
    [][\A p \in Procs : Answering(p) =>
          IF C1_AllSucceeded(p)
          THEN /\ nextCalled'[p]
               /\ resp'[p].status = 200
               /\ user'[p] \in {req[p].jwt.sub, req[p].jwt.user_id, req[p].jwt.id}
               /\ user'[p] \notin {NoUser, ClaimAbsent, ClaimNonString}
          ELSE /\ ~nextCalled'[p]
               /\ resp'[p].status = 401
               /\ user'[p] = NoUser]_vars

\* An asymmetric token has been accepted with a key served from the cache, and
\* the handler ran with its identity.
C1_Witness ==
    /\ pc[1] = "idle" /\ resp[1].status = 200 /\ nextCalled[1] /\ user[1] = "u1"
    /\ jwtSecret = "" /\ cachedKeys["a"] = "K1" /\ rev = "r2"

\* The step in which the http.Get of caller p returns and the call with it.
FetchReturns(p) == pc[p] = "fetching" /\ pc'[p] = "verify"
\* The kid caller p asks for.
KidOf(p) == req[p].jwt.kid
\* The endpoint answered, with a key set that is not empty.
GotKeySet(a) == a.st = "ok" /\ KeyCount(a) > 0
Rejected(p) == resp'[p].status = 401 /\ ~nextCalled'[p] /\ user'[p] = NoUser

\* ---- C2
\* C2: when the fetch succeeds with a non-empty key set that does not contain
\* the kid, the call fails with a key-resolution error (and the request is
\* rejected); it does not return the cached key of the kid, not even when that
\* entry is inside its grace period, and the cache stays as it was.
C2_MissingKidIsHardFailure ==
    [][\A p \in Procs :
          /\ (FetchReturns(p) /\ GotKeySet(jwksResp[p])
                 /\ jwksResp[p].keys[KidOf(p)] = NoKey)
               => key'[p] = NoKey /\ how'[p] = "notfound" /\ UNCHANGED cache
          /\ (Answering(p) /\ how[p] = "notfound") => Rejected(p)]_vars

\* A call has failed on a kid missing from the fetched set while the cache
\* held an expired entry of that kid inside its grace period.
C2_Witness ==
    \E p \in Procs :
        /\ rev = "r1" /\ pc[p] = "verify" /\ how[p] = "notfound" /\ key[p] = NoKey
        /\ cachedKeys[KidOf(p)] # NoKey
        /\ tnow[p] >= cacheExpiries[KidOf(p)]
        /\ tnow[p] < cacheExpiries[KidOf(p)] + gracePeriod

\* ---- C3
\* The refetch failed: network error, non-success status, malformed payload
\* or empty key set.
RefetchFailed(a) == ~GotKeySet(a)

\* C3: when the refetch fails and the cache holds an entry of the kid with
\* now < expiresAt + gracePeriod, the call returns the cached key of that kid.
C3_StaleServedOnFailure ==
    [][\A p \in Procs :
          (FetchReturns(p) /\ RefetchFailed(jwksResp[p])
              /\ cachedKeys[KidOf(p)] # NoKey
              /\ CallNow(p) < cacheExpiries[KidOf(p)] + gracePeriod)
            => key'[p] = cachedKeys[KidOf(p)]]_vars

C5_ExactlyOneFetch ==
    (\A p \in Procs : pc[p] = "idle" /\ resp[p].status # 0) => fetches = 1

\* ---- C6
\* C6: a caller that waited in Lock() while the fetch of another caller for
\* the same kid was in flight starts no fetch of its own, and returns what
\* that fetch returned.
C6_WaitersShareOutcome ==
    [][\A p \in Procs :
          /\ awaited[p] # "none" => pc'[p] # "fetching"
          /\ (awaited[p] \in Keys \cup {NoKey} /\ pc[p] = "wlock" /\ pc'[p] = "verify")
               => key'[p] = awaited[p]]_vars

\* ---- C7
\* C7: at most one fetch is in flight, and the caller that makes it holds the
\* exclusive lock of the cache (and nobody holds the shared one).
C7_OneFetchInFlight ==
    /\ Cardinality({p \in Procs : pc[p] = "fetching"}) <= 1
    /\ \A p \in Procs : pc[p] = "fetching" =>
          cachedKeysMu.writer = p /\ cachedKeysMu.readers = {}

\* A fetch is in flight while a caller for another kid waits in Lock().
C7_Witness ==
    \E p, q \in Procs :
        /\ pc[p] = "fetching" /\ pc[q] = "wlock"
        /\ KidOf(p) # KidOf(q)

\* ---- C8
\* C8: a call whose entry is fresh never waits for network I/O: whenever it
\* stands before its lookup, it can take the shared lock and go on, also
\* while the fetch of another caller is in flight.
C8_FreshNeverWaits ==
    \A p \in Procs : (pc[p] = "rlock" /\ Lookup(p) # NoKey) => CanRLock(p)

\* ---- C9
\* C9: a lookup that finds an entry with now < expiresAt returns its key,
\* fetches nothing and leaves the cache as it was; with now = expiresAt the
\* lookup is a miss and the call goes on to the exclusive lock.
C9_FreshHitBoundary ==
    [][\A p \in Procs :
          (pc[p] = "reading" /\ pc'[p] # "reading" /\ cachedKeys[KidOf(p)] # NoKey)
            => /\ CallNow(p) < cacheExpiries[KidOf(p)]
                    => /\ pc'[p] = "verify"
                       /\ key'[p] = cachedKeys[KidOf(p)]
                       /\ UNCHANGED <<cache, fetches>>
               /\ CallNow(p) = cacheExpiries[KidOf(p)] => pc'[p] = "wlock"]_vars

FetchFailed(a, kid) == RefetchFailed(a) \/ a.keys[kid] \in {"badN", "badE"}

\* C11: a call whose fetch fails leaves the keys and the expiries of all kids
\* as they were, whether it returns the stale key or an error.
C11_FailedFetchKeepsCache ==
    [][\A p \in Procs :
          (FetchReturns(p) /\ FetchFailed(jwksResp[p], KidOf(p)))
            => /\ UNCHANGED cache
               /\ how'[p] \in {"stale", "error"}]_vars

\* A fetch has failed and the call fell back on the expired entry, which is
\* still in the cache.
C11_Witness ==
    /\ pc[1] = "verify" /\ how[1] = "stale"
    /\ key[1] # NoKey /\ cachedKeys[KidOf(1)] = key[1]
    /\ tnow[1] >= cacheExpiries[KidOf(1)]

\* ---- C12
\* C12: every call of getSupabasePublicKey eventually returns, with a key or
\* an error, also when the endpoint never answers.
C12_EveryCallReturns ==
    \A p \in Procs :
        (pc[p] \in {"rlock", "reading", "wlock", "fetching"}) ~> (pc[p] = "verify")

\* ---- C13
\* C13: a key that getSupabasePublicKey returns was listed in a fetched key
\* set under exactly the kid of the token: a key out of a fetch is the entry
\* of that kid in the set, a key out of the cache is the entry of that kid in
\* the cache, and the cache only ever takes the entry of a kid from a fetched
\* set's entry of the same kid.
C13_KeyOfThatKid ==
    [][/\ \A p \in Procs :
            (FetchReturns(p) /\ how'[p] = "fetched")
              => /\ KidOf(p) \in Kids
                 /\ key'[p] = jwksResp[p].keys[KidOf(p)]
       /\ \A p \in Procs :
            (pc[p] # "verify" /\ pc'[p] = "verify"
                /\ how'[p] \in {"fresh", "recheck", "stale"})
              => key'[p] = cachedKeys[KidOf(p)]
       /\ \A k \in Kids :
            cachedKeys'[k] # cachedKeys[k]
              => \E p \in Procs : /\ FetchReturns(p) /\ KidOf(p) = k
                                  /\ cachedKeys'[k] = jwksResp[p].keys[k]]_vars

\* ---- C14
\* The algorithm of the token is of neither family.
OtherAlg(j) == ~IsHMAC(j.alg) /\ ~IsRSA(j.alg)

\* C14: a token whose algorithm is neither HMAC nor RSA ("none" among them)
\* gets no key and causes no cache lookup and no fetch, and its request is
\* rejected, whatever the secret, the URL and the cache are.
C14_OtherAlgRejected ==
    [][\A p \in Procs :
          /\ (pc[p] = "idle" /\ pc'[p] # "idle" /\ OtherAlg(req'[p].jwt))
               => /\ pc'[p] = "verify"
                  /\ key'[p] = NoKey
                  /\ UNCHANGED <<cache, fetches>>
          /\ (Answering(p) /\ OtherAlg(req[p].jwt))
               => Rejected(p) /\ key[p] = NoKey]_vars

\* A "none" token is about to be answered, with a secret and a URL configured
\* and the key of its kid in the cache.
C14_Witness ==
    /\ pc[1] = "verify" /\ req[1].hdr = BearerHdr /\ req[1].jwt.alg = "none"
    /\ jwtSecret = "s1" /\ supabaseURL = "url"
    /\ cachedKeys[KidOf(1)] # NoKey
    /\ key[1] = NoKey

\* ---- C15
\* C15: the key a signature is checked with is the configured secret, got
\* without any lookup, when the token is of the HMAC family, and a public key
\* got from getSupabasePublicKey when the token is of the RSA family; a token
\* of no family gets no key.
C15_KeyAlgPairing ==
    \A p \in Procs :
        (pc[p] = "verify" /\ key[p] # NoKey)
          => \/ /\ IsHMAC(req[p].jwt.alg)
                /\ key[p] = jwtSecret /\ jwtSecret # ""
                /\ how[p] = "none"
             \/ /\ IsRSA(req[p].jwt.alg)
                /\ key[p] \in Keys /\ key[p] # jwtSecret
                /\ how[p] \in {"fresh", "recheck", "stale", "fetched"}

\* An RS256 token signed with the shared secret is about to be verified, with
\* a public key.
C15_Witness ==
    /\ pc[1] = "verify" /\ IsRSA(req[1].jwt.alg)
    /\ jwtSecret = "s1" /\ req[1].jwt.signer = jwtSecret
    /\ key[1] \in Keys

\* ---- C16
\* A request with an HMAC token signed with the configured secret and with a
\* non-empty string as subject.
SignedWithSecret(r) ==
    /\ r.hdr = BearerHdr /\ r.jwt.wf /\ IsHMAC(r.jwt.alg)
    /\ jwtSecret # "" /\ r.jwt.signer = jwtSecret
    /\ IsString(r.jwt.sub) /\ r.jwt.sub # ""

\* C16: a token signed with the configured secret goes to verification with
\* that secret and without any cache lookup or fetch; when its exp is in the
\* future (and its nbf, if any, has been reached) the request is accepted
\* with the subject of the token as identity.
C16_ValidHS256Accepted ==
    [][\A p \in Procs :
          /\ (pc[p] = "idle" /\ pc'[p] # "idle" /\ SignedWithSecret(req'[p]))
               => /\ pc'[p] = "verify"
                  /\ key'[p] = jwtSecret
                  /\ UNCHANGED <<cache, fetches>>
          /\ (Answering(p) /\ SignedWithSecret(req[p])
                 /\ req[p].jwt.exp # NoTime /\ now < req[p].jwt.exp
                 /\ (req[p].jwt.nbf = NoTime \/ req[p].jwt.nbf <= now))
               => /\ resp'[p].status = 200
                  /\ nextCalled'[p]
                  /\ user'[p] = req[p].jwt.sub]_vars

\* A token signed with the secret, with exp in the future, is about to be
\* accepted while no remote URL is configured.
C16_Witness ==
    /\ pc[1] = "verify" /\ SignedWithSecret(req[1]) /\ key[1] = jwtSecret
    /\ req[1].jwt.exp # NoTime /\ now < req[1].jwt.exp
    /\ req[1].jwt.sub = "u1"
    /\ supabaseURL = ""

\* ---- C17
\* C17: a request whose HMAC token was signed with something else than the
\* configured secret is rejected.
C17_WrongSecretRejected ==
    [][\A p \in Procs :
          (Answering(p) /\ IsHMAC(req[p].jwt.alg) /\ req[p].jwt.signer # jwtSecret)
            => Rejected(p)]_vars

\* A token signed with another secret is about to be verified with the
\* configured one.
C17_Witness ==
    /\ pc[1] = "verify" /\ req[1].hdr = BearerHdr /\ req[1].jwt.wf
    /\ IsHMAC(req[1].jwt.alg)
    /\ jwtSecret = "s1" /\ key[1] = "s1" /\ req[1].jwt.signer = "s2"

\* ---- C18
\* A request that passes every check but that of the time claims.
GoodButTime(p) ==
    /\ req[p].hdr = BearerHdr /\ req[p].jwt.wf
    /\ key[p] # NoKey /\ req[p].jwt.signer = key[p]
    /\ IsString(req[p].jwt.sub) /\ req[p].jwt.sub # ""

\* C18: a correctly signed token with an exp claim is accepted when now < exp
\* and rejected when exp <= now (exp = now included).
C18_ExpBoundary ==
    [][\A p \in Procs :
          (Answering(p) /\ GoodButTime(p) /\ req[p].jwt.exp # NoTime
              /\ req[p].jwt.nbf = NoTime)
            => IF now < req[p].jwt.exp
               THEN resp'[p].status = 200 /\ nextCalled'[p]
               ELSE Rejected(p)]_vars

\* A correctly signed token is about to be answered at the instant of its exp.
C18_Witness ==
    /\ pc[1] = "verify" /\ GoodButTime(1)
    /\ req[1].jwt.exp = now

\* ---- C19
\* C19: a request is accepted only if its token carries an exp claim that lies
\* in the future and its nbf claim, if it carries one, has been reached.
C19_ExpRequired ==
    [][\A p \in Procs :
          (Answering(p) /\ resp'[p].status = 200)
            => /\ req[p].jwt.exp # NoTime
               /\ now < req[p].jwt.exp
               /\ (req[p].jwt.nbf = NoTime \/ req[p].jwt.nbf <= now)]_vars

\* ---- C20
\* The first of sub, user_id, id that is a non-empty string; NoUser if none is.
FirstNonEmpty(j) ==
    IF IsString(j.sub) /\ j.sub # "" THEN j.sub
    ELSE IF IsString(j.user_id) /\ j.user_id # "" THEN j.user_id
    ELSE IF IsString(j.id) /\ j.id # "" THEN j.id
    ELSE NoUser

\* C20: the identity attached for a verified token is the first non-empty
\* string among sub, user_id and id; when there is none the request is
\* rejected and no identity is attached.
C20_FirstNonEmptyClaim ==
    [][\A p \in Procs :
          (Answering(p) /\ req[p].hdr = BearerHdr /\ req[p].jwt.wf
              /\ key[p] # NoKey /\ req[p].jwt.signer = key[p]
              /\ (req[p].jwt.exp = NoTime \/ now < req[p].jwt.exp)
              /\ (req[p].jwt.nbf = NoTime \/ req[p].jwt.nbf <= now))
            => IF FirstNonEmpty(req[p].jwt) = NoUser
               THEN Rejected(p)
               ELSE /\ resp'[p].status = 200 /\ nextCalled'[p]
                    /\ user'[p] = FirstNonEmpty(req[p].jwt)]_vars

\* ---- C21
\* The header is exactly the scheme name Bearer followed by one single
\* non-empty token.
C21_BearerAndOneToken(hdr) ==
    /\ Len(Split(hdr)) = 2
    /\ Split(hdr)[1] = <<"Bearer">>
    /\ Split(hdr)[2] # <<>>
C21_MissingCredential(e) ==
    e \in {"Missing Authorization header", "missing Authorization header"}
C21_MalformedCredential(e) ==
    e \in {"Invalid Authorization header format", "invalid Authorization header format"}

\* C21: token extraction fails as missing credential when the header is absent
\* or empty, as malformed credential for every other header that is not
\* "Bearer" followed by one single non-empty token, and otherwise yields that
\* token (the request goes on to parsing); a request that fails extraction
\* leaves the cache alone and starts no fetch.
C21_ExtractionOutcome ==
    [][\A p \in Procs : Answering(p) =>
          LET h == req[p].hdr
              e == resp'[p].error
          IN  /\ h = <<>> => C21_MissingCredential(e) /\ Rejected(p)
              /\ (h # <<>> /\ ~C21_BearerAndOneToken(h))
                   => C21_MalformedCredential(e) /\ Rejected(p)
              /\ C21_BearerAndOneToken(h)
                   => /\ ~C21_MissingCredential(e) /\ ~C21_MalformedCredential(e)
                      /\ TokenString(h) = Split(h)[2]
              /\ ~C21_BearerAndOneToken(h)
                   => cache' = cache /\ how[p] = "none"]_vars

\* ---- C22
\* The time claims of the request of caller p allow the token now.
C22_TimeOK(p) ==
    /\ req[p].jwt.exp # NoTime /\ now < req[p].jwt.exp
    /\ req[p].jwt.nbf = NoTime \/ req[p].jwt.nbf <= now

\* C22: without a shared secret every HMAC token is rejected, and a correctly
\* signed RSA token still has its key resolved and is accepted; without a
\* remote URL every RSA token is rejected without any lookup or fetch, and a token correctly signed with the
\* secret is still accepted.  The handler is built and serves requests in each
\* of the four configurations.
C22_AbsenceHitsOnlyItsFamily ==
    [][\A p \in Procs :
          /\ (pc[p] = "idle" /\ pc'[p] # "idle" /\ jwtSecret = ""
                 /\ req'[p].hdr = BearerHdr /\ req'[p].jwt.wf
                 /\ IsRSA(req'[p].jwt.alg) /\ req'[p].jwt.kid # "")
               => (supabaseURL # "" <=> pc'[p] = "rlock")
          /\ Answering(p) =>
              /\ (jwtSecret = "" /\ IsHMAC(req[p].jwt.alg)) => Rejected(p)
              /\ (supabaseURL = "" /\ IsRSA(req[p].jwt.alg))
                   => Rejected(p) /\ how[p] = "none" /\ key[p] = NoKey
              /\ (supabaseURL = "" /\ SignedWithSecret(req[p]) /\ C22_TimeOK(p))
                   => /\ resp'[p].status = 200 /\ nextCalled'[p]
                      /\ user'[p] = req[p].jwt.sub
              /\ (jwtSecret = "" /\ IsRSA(req[p].jwt.alg) /\ GoodButTime(p)
                     /\ C22_TimeOK(p))
                   => /\ resp'[p].status = 200 /\ nextCalled'[p]
                      /\ user'[p] = req[p].jwt.sub]_vars

\* Without a shared secret, an RSA token signed with the key of its kid is
\* about to be accepted with a key that was fetched for it.
C22_Witness ==
    /\ jwtSecret = "" /\ supabaseURL = "url"
    /\ pc[1] = "verify" /\ IsRSA(req[1].jwt.alg) /\ GoodButTime(1) /\ C22_TimeOK(1)
    /\ how[1] = "fetched"

\* ---- C23
\* C23: any two requests that were refused got the same response, whatever
\* made each of them fail: the 401 bodies of two callers are equal in every
\* member.
C23_OneGenericOutcome ==
    \A p, q \in Procs :
        (resp[p].status = 401 /\ resp[q].status = 401) => resp[p] = resp[q]

\* ---- C24
\* The step in which caller p looks its kid up: under the shared lock
\* (auth.go:163, 491) or, after a miss, under the exclusive one (auth.go:176,
\* 512).
C24_LooksUp(p) ==
    \/ pc[p] = "reading" /\ pc'[p] # "reading"
    \/ pc[p] = "wlock" /\ pc'[p] # "wlock"

\* C24: the cache changes only in the step in which the holder of the
\* exclusive lock installs key and expiry and releases the lock, while nobody
\* holds the shared lock; every lookup runs while no refresh holds the lock,
\* and what it returns is the entry that is in the cache at that moment, the
\* one the last refresh of its kid installed, with that entry's expiry.
C24_LookupSeesInstalledEntry ==
    [][/\ cache' # cache
          => \E p \in Procs :
                /\ FetchReturns(p)
                /\ cachedKeysMu.writer = p /\ cachedKeysMu.readers = {}
                /\ cachedKeysMu'.writer = NoProc
                /\ cachedKeys'[KidOf(p)] # NoKey
                /\ cacheExpiries'[KidOf(p)] # NoTime
       /\ \A p \in Procs : C24_LooksUp(p)
          => /\ cachedKeysMu.writer \in {NoProc, p}
             /\ UNCHANGED cache
             /\ pc'[p] = "verify"
                  => /\ key'[p] = cachedKeys[KidOf(p)]
                     /\ key'[p] # NoKey
                     /\ IF rev = "r1" THEN tnow[p] < cacheExpiries[KidOf(p)]
                        ELSE now <= cacheExpiries[KidOf(p)]]_vars

\* Caller 1 has refreshed kid "a" and released the lock; caller 2 holds the
\* shared lock and is about to look the same kid up.
C24_Witness ==
    /\ pc[1] = "verify" /\ how[1] = "fetched" /\ KidOf(1) = "a"
    /\ cachedKeysMu.writer = NoProc
    /\ pc[2] = "reading" /\ KidOf(2) = "a"
    /\ cachedKeys["a"] = key[1]

\* ---- C25
\* C25: a step changes the entry of a kid only by storing the key that was just
\* fetched for it together with the expiry (instant at which the fetch
\* returned) + cacheTTL, so every entry has expiresAt = fetchedAt + TTL, also
\* when the installing call first waited for the exclusive lock; no step
\* changes key or expiry of an entry alone, and an entry has both or neither.
C25_ExpiryIsFetchPlusTTL ==
    [][/\ \A k \in Kids :
             \/ cachedKeys'[k] = cachedKeys[k] /\ cacheExpiries'[k] = cacheExpiries[k]
             \/ \E p \in Procs :
                   /\ FetchReturns(p) /\ KidOf(p) = k
                   /\ cachedKeys'[k] = jwksResp[p].keys[k]
                   /\ cachedKeys'[k] = key'[p]
                   /\ cacheExpiries'[k] = now + cacheTTL
       /\ \A k \in Kids : cachedKeys'[k] = NoKey <=> cacheExpiries'[k] = NoTime]_vars

\* ---- C26
\* The entry of kid k is absent, or its expiry has been reached.
C26_AbsentOrExpired(k) == cachedKeys[k] = NoKey \/ cacheExpiries[k] <= now

\* C26: the cache changes only when the fetch of a call for kid k returns a
\* key for k, and then only the entry of k changes, which was absent or
\* expired; a fetch is started only by a call whose kid has no entry or an
\* expired one; a step that is not the return of such a fetch leaves every
\* entry alone, and no step removes an entry.
C26_OnlyResolveWrites ==
    [][/\ \A k \in Kids : cachedKeys[k] # NoKey => cachedKeys'[k] # NoKey
       /\ cache' # cache
          => \E p \in Procs :
                /\ FetchReturns(p)
                /\ GotKeySet(jwksResp[p])
                /\ jwksResp[p].keys[KidOf(p)] \in Keys
                /\ C26_AbsentOrExpired(KidOf(p))
                /\ \A k \in Kids \ {KidOf(p)} :
                      cachedKeys'[k] = cachedKeys[k] /\ cacheExpiries'[k] = cacheExpiries[k]
       /\ \A p \in Procs :
             (pc[p] # "fetching" /\ pc'[p] = "fetching")
               => C26_AbsentOrExpired(KidOf(p)) /\ UNCHANGED cache]_vars

\* Caller 2 was served with the entry of kid "a" (kid "b" has never had one),
\* and caller 1 has now replaced that entry by a second fetch.
C26_Witness ==
    /\ pc[1] = "verify" /\ how[1] = "fetched" /\ KidOf(1) = "a"
    /\ fetches = 2
    /\ pc[2] = "idle" /\ resp[2].status = 200
    /\ cachedKeys["b"] = NoKey

\* ---- C27
\* The step in which a request on /api is answered.
ApiAnswered == apiCount' = apiCount + 1

\* How many requests of key k reached the handler at the instants lo .. hi.
RECURSIVE C27_Handled(_, _, _, _)
C27_Handled(h, k, lo, hi) ==
    IF lo > hi THEN 0
    ELSE (IF hi \in 0 .. MaxTime THEN h[k][hi] ELSE 0) + C27_Handled(h, k, lo, hi - 1)

\* The answers the claim tells apart, for the request that was just counted
\* under key k: over the limit when the window of k is open and already holds
\* maxRequests requests.
C27_OverLimit(k) == now < limiter[k].exp /\ limiter[k].currHits >= maxRequests
C27_Answers ==
    (ApiAnswered /\ apiResp'.key # NoRateKey)
      => IF C27_OverLimit(apiResp'.key)
         THEN /\ apiResp'.status = 429
              /\ apiResp'.error = "Rate limit exceeded"
              /\ ~apiResp'.handled
              /\ handledAt' = handledAt
         ELSE /\ apiResp'.status = 200
              /\ apiResp'.handled
              /\ handledAt'[apiResp'.key][now] = handledAt[apiResp'.key][now] + 1

C28_UnauthenticatedLimitedPerIP ==
    [][(ApiAnswered /\ apiResp'.user = NoUser)
         => LET k == <<apiResp'.ip>>
            IN  /\ limiter'[k] = FixedWindow(limiter[k], now)
                /\ LimitReached(limiter'[k]) => apiResp'.status = 429]_vars

\* ---- C29
\* C29: the key of a request is "user:" followed by its identity when
\* c.Locals("user") is a non-empty string and the address of the caller
\* otherwise; on /api every request that reaches the limiter has a verified,
\* non-empty identity and is counted under the key of that identity and under
\* no other, so that requests of two identities never count under one key.
C29_KeyedByIdentity ==
    [][(ApiAnswered /\ apiResp'.key # NoRateKey)
         => LET u == apiResp'.user
                k == apiResp'.key
            IN  /\ k = IF u # NoUser /\ IsString(u) /\ u # ""
                       THEN <<"user:", u>> ELSE <<apiResp'.ip>>
                /\ u \notin {NoUser, ""}
                /\ k = <<"user:", u>>
                /\ \A k2 \in RateKeys \ {k} : limiter'[k2] = limiter[k2]
                /\ limiter'[k].currHits >= 1]_vars

\* ---- C30
\* The string is an optional sign followed by decimal digits only.
C30_IsInteger(s) ==
    LET digits == IF s # <<>> /\ s[1] \in {"+", "-"} THEN Tail(s) ELSE s
    IN  digits # <<>> /\ \A i \in 1 .. Len(digits) : IsDigit(digits[i])
\* The string denotes a strictly positive integer that fits an int.
C30_IsPositiveInt(s) ==
    /\ C30_IsInteger(s)
    /\ s[1] # "-"
    /\ \E i \in 1 .. Len(s) : s[i] \in {"1", "2", "5"}
    /\ DecimalVal(IF s[1] = "+" THEN Tail(s) ELSE s) <= IntMax

\* C30: RateLimit() is built with the integer value of RATE_LIMIT_MAX when
\* that is the text of a strictly positive integer, and with 100 in every
\* other case (unset or empty, not a number, zero, negative, out of range).
C30_MaxRequests ==
    maxRequests # 0
      => maxRequests = IF C30_IsPositiveInt(rateLimitEnv)
                       THEN DecimalVal(IF rateLimitEnv[1] = "+" THEN Tail(rateLimitEnv)
                                       ELSE rateLimitEnv)
                       ELSE DefaultMaxRequests

\* RateLimit() has been built with RATE_LIMIT_MAX = "-5" and allows 100.
C30_Witness ==
    /\ rateLimitEnv = <<"-", "5">>
    /\ maxRequests = DefaultMaxRequests

\* ------------------------------------------------------------------ C31
C31_Called == bcastCalls' = bcastCalls + 1

\* C31: Broadcast never blocks its caller.  Whatever the Run goroutine is
\* doing, a call can be made and returns in one step: on a nil hub nothing
\* changes; with the buffer full (BroadcastCap messages) the message is
\* dropped; otherwise it is appended to the channel.  The call changes
\* neither the client map nor the position of Run.
C31_BroadcastNeverBlocks ==
    /\ []((bcastCalls < MaxBroadcasts /\ ~Crashed) => ENABLED Broadcast)
    /\ [][C31_Called =>
            /\ hub = "nil" => broadcast' = broadcast
            /\ (hub # "nil" /\ Len(broadcast) = BroadcastCap) => broadcast' = broadcast
            /\ (hub # "nil" /\ Len(broadcast) < BroadcastCap)
                  => broadcast' = Append(broadcast, bcastCalls')
            /\ Len(broadcast') <= BroadcastCap
            /\ UNCHANGED <<hub, clients, run, hpc, closes, writing, delivered>>]_vars

\* The fourth message was dropped on a full buffer while Run was inside a
\* write that does not return.
C31_Witness ==
    /\ hub = "ready"
    /\ bcastCalls = 4
    /\ Len(broadcast) = BroadcastCap
    /\ run.pc = "write" /\ run.hang

\* ------------------------------------------------------------------ C32
Msgs == 1 .. MaxBroadcasts
InChannel(m) == \E i \in 1 .. Len(broadcast) : broadcast[i] = m
WrittenTo(c, m) == \E i \in 1 .. Len(delivered[c]) : delivered[c][i] = m
InOrder(s) == \A i, j \in 1 .. Len(s) : i < j => s[i] < s[j]
RemovedAndClosed(c) == c \notin clients /\ closes[c] > 0

\* C32: every message accepted into the broadcast channel is eventually
\* taken out by Run and written to every client that is in the client map at
\* that moment, each client getting the messages in the order of acceptance;
\* a client whose write fails is removed and closed, and the loop goes on to
\* the remaining clients.
C32_EveryMessageWritten ==
    /\ [](\A c \in Conns : InOrder(delivered[c]))
    /\ \A m \in Msgs : InChannel(m) ~> ~InChannel(m)
    /\ \A m \in Msgs : \A c \in Conns :
          (run.msg = m /\ c \in run.todo) ~> (WrittenTo(c, m) \/ RemovedAndClosed(c))

\* ------------------------------------------------------------------ C33
\* The realtime connections that have been dialled and not closed.
C33_OpenConnections ==
    (IF subscription \in {"join", "listen", "sleep"} THEN 1 ELSE 0) + unclosed

\* C33: after every loss of the realtime connection the subscriber is
\* eventually connected and subscribed to artist_metrics again, provided the
\* endpoint stays reachable from some moment on, also when an attempt to
\* reconnect has failed in between; and no two realtime connections are open
\* at the same time.
C33_AlwaysResubscribes ==
    /\ (<>[]reachable) => [](subscription = "sleep" => <>(subscription = "listen"))
    /\ [](C33_OpenConnections <= 1)

\* ------------------------------------------------------------------ C34
C34_IsText(v) == v # ClaimAbsent /\ v # ClaimNonString
C34_EventType(pl) == IF C34_IsText(pl.eventType) THEN pl.eventType ELSE pl.event
C34_Record(pl) == IF pl.new.present THEN pl.new ELSE pl.record
\* The payloads the claim lets handlePriceUpdate act on.
C34_Acts(pl) ==
    /\ C34_EventType(pl) \in {"INSERT", "UPDATE"}
    /\ C34_Record(pl).present
    /\ C34_IsText(C34_Record(pl).artist_id)
    /\ C34_Record(pl).price.t = "float64"
C34_Handled == updates' = updates + 1

\* C34: handlePriceUpdate acts only on INSERT and UPDATE payloads whose record
\* has a string artist_id and a numeric price.  It then calls Set with the key
\* price:<artist_id> when there is a cache client, and calls Broadcast exactly
\* once with the PriceUpdate of that artist, price and event, whether or not
\* there is a cache client and whether or not Set succeeded.  For every other
\* payload it neither calls Set nor Broadcast.
C34_ActsOnGoodPayloadsOnly ==
    [][C34_Handled =>
        LET pl == lastPayload'
            rec == C34_Record(pl)
        IN  IF C34_Acts(pl)
            THEN /\ IF redisClient = "nil"
                    THEN cacheLog' = cacheLog
                    ELSE /\ cacheLog'.n = cacheLog.n + 1
                         /\ cacheLog'.last.key = <<"price:", rec.artist_id>>
                 /\ bcastCalls' = bcastCalls + 1
                 /\ Len(broadcast) < BroadcastCap =>
                      /\ Len(broadcast') = Len(broadcast) + 1
                      /\ broadcast'[Len(broadcast')].artist_id = rec.artist_id
                      /\ broadcast'[Len(broadcast')].event = C34_EventType(pl)
                      /\ redisClient # "nil" =>
                           broadcast'[Len(broadcast')].price = cacheLog'.last.value
            ELSE /\ cacheLog' = cacheLog
                 /\ bcastCalls' = bcastCalls
                 /\ broadcast' = broadcast]_vars

\* An update was handled whose cache write failed and which was broadcast all
\* the same.
C34_Witness ==
    /\ updates > 0
    /\ C34_Acts(lastPayload)
    /\ cacheLog.n > 0 /\ ~cacheLog.last.ok
    /\ bcastCalls = cacheLog.n
    /\ Len(broadcast) > 0
    /\ broadcast[Len(broadcast)].artist_id = "a1"

\* ------------------------------------------------------------------ C35
\* C35: once a successful fetch has shown that a kid is absent from the
\* remote key set, no call returns a cached key for that kid, neither from a
\* lookup nor as the stale key after a failed fetch, until a later successful
\* fetch contains the kid again.
C35_RotatedKeyNeverServed ==
    [][\A p \in Procs :
          (/\ how'[p] \in {"fresh", "recheck", "stale"}
           /\ how[p] = "none")
          => req[p].jwt.kid \notin shownAbsent]_vars

\* ------------------------------------------------------------------ C36
\* C36: freshness and staleness are judged against the time at which the
\* caller holds the exclusive lock: when a call returns a key from the
\* double-check under Lock(), the instant at which it acquired the lock is
\* before the entry's expiry, and when it takes a stale key, that instant is
\* before expiry + gracePeriod, however long it waited for the lock.
C36_JudgedAtLockTime ==
    [][\A p \in Procs :
          LET kid == req[p].jwt.kid
          IN  /\ (pc[p] = "wlock" /\ how'[p] = "recheck") => now < cacheExpiries[kid]
              /\ (pc[p] = "wlock" /\ staleKey'[p] # NoKey)
                    => now < cacheExpiries[kid] + gracePeriod]_vars

\* ------------------------------------------------------------------ C37
\* C37: in every state a caller can observe the key map and the expiry map
\* hold the same kids (a kid has a cached key exactly when it has a cached
\* expiry), and the two maps are written only together, for one kid, by the
\* caller that holds the exclusive lock.
C37_SameKeySet ==
    /\ [](\A k \in Kids : cachedKeys[k] # NoKey <=> cacheExpiries[k] # NoTime)
    /\ [][(cachedKeys' # cachedKeys \/ cacheExpiries' # cacheExpiries) =>
            /\ cachedKeysMu.writer # NoProc
            /\ pc[cachedKeysMu.writer] = "fetching"
            /\ \E k \in Kids :
                  /\ k = req[cachedKeysMu.writer].jwt.kid
                  /\ cachedKeys'[k] # NoKey /\ cacheExpiries'[k] # NoTime
                  /\ \A j \in Kids \ {k} :
                        cachedKeys'[j] = cachedKeys[j] /\ cacheExpiries'[j] = cacheExpiries[j]]_vars

\* A key is cached while another call for the same kid stands in Lock().
C37_Witness ==
    /\ \E k \in Kids : cachedKeys[k] # NoKey /\ cacheExpiries[k] # NoTime
    /\ \E p \in Procs : pc[p] = "wlock" /\ cachedKeys[req[p].jwt.kid] # NoKey

\* ------------------------------------------------------------------ C38
\* A well-formed token of an asymmetric algorithm that cannot be resolved:
\* it names no kid (none, an empty one, or one that is not a string), or no
\* remote base URL is configured.
C38_Unresolvable(r) ==
    /\ HeaderCheck(r.hdr) = ""
    /\ ParseUnverifiedOK(r)
    /\ r.jwt.alg \in {"RS256", "ES256"}
    /\ (r.jwt.kid = "" \/ supabaseURL = "")

\* C38: such a token is rejected with 401 without a call of the key
\* resolution: no fetch is made, the cache lock is not taken and the cache is
\* not changed, from the arrival of the request to its answer.
C38_RejectedWithoutResolve ==
    [][\A p \in Procs :
          /\ (pc[p] = "idle" /\ pc'[p] # "idle" /\ C38_Unresolvable(req'[p]))
                => /\ pc'[p] = "verify"
                   /\ key'[p] = NoKey
                   /\ UNCHANGED <<cache, cachedKeysMu, fetches>>
          /\ (pc[p] # "idle" /\ C38_Unresolvable(req[p]))
                => /\ pc[p] = "verify"
                   /\ how[p] = "none"
                   /\ pc'[p] # pc[p] =>
                        /\ resp'[p].status = 401
                        /\ ~nextCalled'[p]
                        /\ user'[p] = NoUser
                   /\ UNCHANGED <<cache, cachedKeysMu, fetches>>]_vars

\* An RS256 token without kid is about to be answered although a remote URL
\* is configured and the cache holds a key.
C38_Witness ==
    /\ pc[1] = "verify"
    /\ C38_Unresolvable(req[1])
    /\ req[1].jwt.alg = "RS256" /\ req[1].jwt.kid = ""
    /\ supabaseURL = "url"
    /\ \E k \in Kids : cachedKeys[k] # NoKey

\* ------------------------------------------------------------------ C39
\* C39: at no time are two goroutines inside a write on the same WebSocket
\* connection: the broadcast write of Run and the echo write of the
\* connection's own handler never overlap.
C39_OneWriterPerConnection ==
    \A c \in Conns : Cardinality(writing[c]) <= 1

\* ------------------------------------------------------------------ C40
\* Run has taken the connection from the register channel: it is in the
\* client map, or Run is about to put it there before it serves anything
\* else, or it was there and has been removed.
C40_Registered(c) ==
    \/ c \in clients
    \/ run.pc = "register" /\ run.cur = c
    \/ closes[c] > 0
    \/ hpc[c] = "done"

\* C40: a connection is registered with the hub before its handler reads
\* from it; once its handler has ended (the peer went away, a read or the
\* echo write failed) it is eventually gone from the client map; the hub
\* closes a connection at most once, also when a failed broadcast write
\* removed and closed it before the handler's unregister arrives; and a
\* client that is not in the map is written no broadcast.
C40_ClientLifecycle ==
    /\ [](\A c \in Conns : hpc[c] \in {"read", "echo", "unregister"} => C40_Registered(c))
    /\ [](\A c \in Conns : closes[c] <= 1)
    /\ [][\A c \in Conns : delivered'[c] # delivered[c] => c \in clients]_vars
    /\ \A c \in Conns : (hpc[c] = "unregister") ~> (hpc[c] = "done" /\ c \notin clients)

====
